---- MODULE Spec2Model ----
(***************************************************************************)
(* A state-machine model of the compile/execute pipeline of ai-web-driver: *)
(*   - the action plan executor        (src/executor_mvp/executor.py)      *)
(*   - the batch runner                (src/executor_mvp/batch_executor.py)*)
(*   - the batch report generator      (.../simple_report_generator.py)    *)
(*   - the LLM compilation pipeline    (src/compiler_mvp/llm_pipeline.py)  *)
(* The browser, the file system and the LLM are the environment: every     *)
(* call into them is a nondeterministic choice among the outcomes the call *)
(* can have (a value, or one of the exceptions it can raise).              *)
(***************************************************************************)
EXTENDS Integers, Sequences, FiniteSets, TLC

(***************************************************************************)
(* Bounds of the model.                                                    *)
(***************************************************************************)
\* longest action plan handed to Executor.run
MaxSteps == 2

(***************************************************************************)
(* The state.                                                              *)
(***************************************************************************)
VARIABLES
    plan,         \* Executor.run: the ActionPlan's steps
    screenshots,  \* ExecutorSettings.screenshots
    epc,          \* Executor.run: where the call stands
    result,       \* Executor.run: the RunResult being built
    runlog,       \* runner.log: per executed step, the attempts made
    runJson,      \* the content of <artifacts_dir>/run.json
    writes        \* how often run.json was written


execVars == <<plan, screenshots, epc, result, runlog, runJson, writes>>

VARIABLES
    hasCasesDir,   \* whether <plan_dir>/cases is a directory
    casesDir,      \* the items of <plan_dir>/cases
    case_count,    \* run_batch's case_count (0: None)
    bpc,           \* run_batch: where the call stands
    case_items,    \* run_batch: the selected cases
    batch,         \* run_batch: the BatchResult being built
    attempted,     \* the case items the loop has gone through, in order
    run_files,     \* the run.json files written under <batch_dir>, in order
    summaryJson,   \* the content of <batch_dir>/batch_summary.json
    reportMd       \* the content of <batch_dir>/test_report.md

batchVars == <<hasCasesDir, casesDir, case_count, bpc, case_items, batch, attempted, run_files,
               summaryJson, reportMd>>

VARIABLES
    profile,           \* LLMCompilationPipeline.run: the SiteProfile's aliases, in dict order
    request_base_url,  \* TestRequest.base_url
    max_attempts,      \* LLMCompilationPipeline.max_attempts
    cpc,               \* LLMCompilationPipeline.run: where the call stands
    attempts,          \* chat completions requested so far
    accepted,          \* whether the repair loop was left by its break
    messages,          \* run: the conversation sent to the LLM
    validation_error,  \* run: validation_error
    response_payload,  \* run: response_payload (<<>>: None)
    planFile,          \* the content of <case_dir>/action_plan.json (<<>>: no file)
    compiled,          \* the CompilationResult of _materialize_plan (<<>>: none yet)
    compile_error      \* the exception run raised (None: none)

compVars == <<profile, request_base_url, max_attempts, cpc, attempts, accepted, messages,
              validation_error, response_payload, planFile, compiled, compile_error>>

VARIABLES
    template_plan,  \* DataDrivenCompiler.compile: the template ActionPlan
    dataset,        \* DataDrivenCompiler.compile: the rows of the dataset
    xpc,            \* DataDrivenCompiler.compile: where the call stands
    cases,          \* DataDrivenResult.cases
    stats,          \* compile: the ReplacementStats being built
    resolved        \* per processed row, what _compile_single_case got back from the walker

expandVars == <<template_plan, dataset, xpc, cases, stats, resolved>>

VARIABLES
    profile_file,  \* the site profile file at output_path
    now,           \* the clock, in ticks
    mpc,           \* merge_page_into_profile: where the call stands
    merge_call,    \* the last call of merge_page_into_profile
    merges,        \* the calls made so far
    observed       \* what the last load_site_profile read from the file

mergeVars == <<profile_file, now, mpc, merge_call, merges, observed>>

VARIABLES
    cli_mode,   \* executor_mvp.cli main: "single" or "batch" (args.batch)
    exit_code   \* the exit code of the process (<<>>: it has not exited)

cliVars == <<cli_mode, exit_code>>

VARIABLES
    page_dom,   \* calibration: the live page, its elements in document order
    dom_tree,   \* the DOM tree last emitted, its entries in document order
    dom_op,     \* what happened to the page last
    dom_calls   \* the extractions made so far

domVars == <<page_dom, dom_tree, dom_op, dom_calls>>

VARIABLES
    snapshots_dir,  \* the directory of each snapshot id under the snapshots root
    snapshot_id,    \* the id of the last create_snapshot call (0: none yet)
    wait_for,       \* whether the call carries a wait_for selector
    snap_pc,        \* where create_snapshot stands
    snap_result     \* how the last call ended

snapVars == <<snapshots_dir, snapshot_id, wait_for, snap_pc, snap_result>>

VARIABLES
    sessions,       \* SessionManager.sessions: the ids in the pool
    last_accessed,  \* CalibrationSession.last_accessed of each session id
    browsers,       \* the session ids whose headed browser is running
    handlers,       \* the create requests being served, one per thread
    sess_now,       \* the clock of the server
    created,        \* the session ids handed out so far
    rejected        \* whether the limit has rejected a create request

sessVars == <<sessions, last_accessed, browsers, handlers, sess_now, created, rejected>>

calVars == <<domVars, snapVars, sessVars>>

\* the variables of the components that the executor, the batch runner and
\* the LLM pipeline do not touch
restVars == <<expandVars, mergeVars, cliVars, calVars>>

\* Python's None, and the unset Optional[str] error of a result
None == "None"
NoError == <<>>

(***************************************************************************)
(* Executor: the steps of a plan (executor_mvp/models.py ActionStep).      *)
(***************************************************************************)
ActionStep(t, selector, url, value, kind) ==
    [t |-> t, selector |-> selector, url |-> url, value |-> value, kind |-> kind]

\* the steps the plans of the model are built from: every step type, with
\* well-formed and ill-formed fields, and a type the executor does not know
ExecSteps ==
    { ActionStep("goto", None, "/login", None, None),
      ActionStep("fill", "#user", None, "alice", None),
      ActionStep("fill", "#user", None, None, None),
      ActionStep("click", ".btn", None, None, None),
      ActionStep("click", None, None, None, None),
      ActionStep("assert", ".title", None, "alice", "text_contains"),
      ActionStep("assert", ".item", None, "alice", "count_equals"),
      ActionStep("hover", ".btn", None, None, None) }

\* sequences over S of length lo..hi
SeqsOf(S, lo, hi) == UNION { [1..n -> S] : n \in lo..hi }


(***************************************************************************)
(* The exceptions a call can raise, named by type and message.  Playwright *)
(* raises TimeoutError or another Error; the handlers raise ValueError for *)
(* ill-formed steps and AssertionError for assertion misses.               *)
(***************************************************************************)
PlaywrightTimeoutError == "PlaywrightTimeoutError"
PlaywrightError == "PlaywrightError: Target page, context or browser has been closed"
AssertionMiss == "AssertionError: expectation not met"
BrowserFailures == {PlaywrightTimeoutError, PlaywrightError}
Ok == "ok"

\* Executor._format_error (the fixed message is Chinese text in the source)
FormatError(exc) ==
    IF exc = PlaywrightTimeoutError
    THEN "verification failed: the DOM element was not found"
    ELSE exc

\* str.isdigit on the values of the model
IsDigits(v) == v \in {"0", "3"}

\* Executor._parse_expected_count: Ok, or the ValueError it raises
ParseExpectedCount(raw_value, kind) ==
    IF raw_value = None THEN "ValueError: assertion requires 'value'"
    ELSE IF raw_value = "" THEN "ValueError: assertion requires numeric 'value'"
    ELSE IF ~IsDigits(raw_value) THEN "ValueError: assertion requires integer 'value'"
    ELSE Ok

\* Executor._handle_goto: the outcomes of one call
HandleGoto(step) ==
    IF step.url = None THEN {"ValueError: goto step missing 'url'"}
    ELSE {Ok} \cup BrowserFailures

\* Executor._handle_fill
HandleFill(step) ==
    IF step.value = None THEN {"ValueError: fill step missing 'value'"}
    ELSE IF step.selector = None THEN {"ValueError: fill step missing 'selector'"}
    ELSE {Ok} \cup BrowserFailures

\* Executor._handle_click
HandleClick(step) ==
    IF step.selector = None THEN {"ValueError: click step missing 'selector'"}
    ELSE {Ok} \cup BrowserFailures

\* Executor._handle_assert
HandleAssert(step) ==
    IF step.kind = None THEN {"ValueError: assert step missing 'kind'"}
    ELSE IF step.selector = None THEN {"ValueError: assert step missing 'selector'"}
    ELSE IF step.kind = "visible" THEN {Ok} \cup BrowserFailures
    ELSE IF step.kind \in {"text_contains", "text_equals"} THEN
        IF step.value = None THEN {"ValueError: assertion requires 'value'"}
        ELSE {Ok, AssertionMiss} \cup BrowserFailures
    ELSE IF step.kind \in {"count_equals", "count_at_least"} THEN
        IF ParseExpectedCount(step.value, step.kind) # Ok
        THEN {ParseExpectedCount(step.value, step.kind)}
        ELSE {Ok, AssertionMiss} \cup BrowserFailures
    ELSE {"ValueError: Unsupported assert kind"}

\* Executor._run_step, lines 127-137: the dispatch on step.t
HandleStep(step) ==
    IF step.t = "goto" THEN HandleGoto(step)
    ELSE IF step.t = "fill" THEN HandleFill(step)
    ELSE IF step.t = "click" THEN HandleClick(step)
    ELSE IF step.t = "assert" THEN HandleAssert(step)
    ELSE {"ValueError: Unsupported step type"}

\* Executor._should_capture
ShouldCapture(policy, step_success) ==
    IF policy = "none" THEN FALSE
    ELSE IF policy = "all" THEN TRUE
    ELSE ~step_success

\* lines 151-157, 162-168, 170-176: the screenshot of step `index`, when the
\* policy asks for one and page.screenshot does not fail
Capture(policy, step_success, index, shotOk) ==
    IF ShouldCapture(policy, step_success) /\ shotOk THEN <<"steps", index>> ELSE <<>>

StepResult(index, action, status, error, screenshot_path) ==
    [index |-> index, action |-> action, status |-> status,
     error |-> error, screenshot_path |-> screenshot_path]

\* the retry of a click, lines 142-150: the outcomes of wait_for_timeout(500)
\* followed by a second _handle_click
RetryOutcomes(step) ==
    {[waited |-> FALSE, exc |-> PlaywrightError]}
        \cup {[waited |-> TRUE, exc |-> o] : o \in HandleClick(step)}

\* the prefix of line 149 (in the source a Chinese phrase: "still failing after the retry: ")
RetryPrefix == "retry failed: "

RetryErrorMut(first, retry) == <<RetryPrefix, FormatError(first)>>

\* line 149: the error of a click step whose retry failed
RetryError(first, retry) == <<RetryPrefix, FormatError(retry)>>

RunStepMutNoRetryPass(policy, step, index, first, retry, shotOk) ==
    IF first = Ok
    THEN [sr |-> StepResult(index, step, "passed", NoError, Capture(policy, TRUE, index, shotOk)),
          attempts |-> 1, retried |-> FALSE, waited |-> FALSE, first |-> first, retry |-> None]
    ELSE [sr |-> StepResult(index, step, "failed",
                    IF step.t = "click" THEN RetryError(first, retry.exc) ELSE <<FormatError(first)>>,
                    Capture(policy, FALSE, index, shotOk)),
          attempts |-> IF step.t = "click" /\ retry.waited THEN 2 ELSE 1,
          retried |-> step.t = "click", waited |-> step.t = "click" /\ retry.waited,
          first |-> first,
          retry |-> IF step.t = "click" THEN retry.exc ELSE None]

RunStepMutRetryAll(policy, step, index, first, retry, shotOk) ==
    IF first = Ok
    THEN [sr |-> StepResult(index, step, "passed", NoError, Capture(policy, TRUE, index, shotOk)),
          attempts |-> 1, retried |-> FALSE, waited |-> FALSE, first |-> first, retry |-> None]
    ELSE IF retry.exc = Ok
         THEN [sr |-> StepResult(index, step, "passed", NoError, <<>>),
               attempts |-> 2, retried |-> TRUE, waited |-> TRUE, first |-> first, retry |-> Ok]
         ELSE [sr |-> StepResult(index, step, "failed", RetryError(first, retry.exc),
                                 Capture(policy, FALSE, index, shotOk)),
               attempts |-> IF retry.waited THEN 2 ELSE 1, retried |-> TRUE, waited |-> retry.waited,
               first |-> first, retry |-> retry.exc]

\* Executor._run_step: the StepResult of one step and what runner.log shows
\* of it, given the outcome of the first attempt, of the retry (used by a
\* failed click only) and of page.screenshot
RunStep(policy, step, index, first, retry, shotOk) ==
    IF first = Ok
    THEN [sr |-> StepResult(index, step, "passed", NoError, Capture(policy, TRUE, index, shotOk)),
          attempts |-> 1, retried |-> FALSE, waited |-> FALSE, first |-> first, retry |-> None]
    ELSE IF step.t = "click"
         THEN IF retry.exc = Ok
              THEN [sr |-> StepResult(index, step, "passed", NoError, <<>>),
                    attempts |-> 2, retried |-> TRUE, waited |-> TRUE, first |-> first, retry |-> Ok]
              ELSE [sr |-> StepResult(index, step, "failed", RetryError(first, retry.exc),
                                      Capture(policy, FALSE, index, shotOk)),
                    attempts |-> IF retry.waited THEN 2 ELSE 1, retried |-> TRUE, waited |-> retry.waited,
                    first |-> first, retry |-> retry.exc]
         ELSE [sr |-> StepResult(index, step, "failed", <<FormatError(first)>>,
                                 Capture(policy, FALSE, index, shotOk)),
               attempts |-> 1, retried |-> FALSE, waited |-> FALSE, first |-> first, retry |-> None]

StatusAfterStepMut(status, step_status) == status

\* lines 82-83: the run's status once a step's result is known
StatusAfterStep(status, step_status) ==
    IF step_status = "failed" THEN "failed" ELSE status

HaltsAfterStepMut(step_status) == FALSE

\* lines 82-84: a failed step breaks the loop
HaltsAfterStep(step_status) == step_status = "failed"

\* line 57: the RunResult at the start of a run
NewRunResult == [status |-> "passed", steps |-> <<>>, error |-> NoError]

(***************************************************************************)
(* Executor.run, one action per stage.                                     *)
(*   start   -> (mkdir, runner.log, steps/)       -> open | raised         *)
(*   open    -> (browser, context, page, timeout) -> loop | finally        *)
(*   loop    -> one _run_step per action          -> loop | exit           *)
(*   exit    -> (context.close, browser.close)    -> finally               *)
(*   finally -> (run.json)                        -> done | raised         *)
(***************************************************************************)

\* lines 51-67: the artifacts directory, the log handler and steps/
ExecPrepare ==
    /\ epc = "start"
    /\ \E ok \in BOOLEAN : epc' = IF ok THEN "open" ELSE "raised"
    /\ UNCHANGED <<plan, screenshots, result, runlog, runJson, writes>>
    /\ UNCHANGED <<batchVars, compVars, restVars>>

\* lines 70-72 and 342-347: entering the playwright context
ExecOpenContext ==
    /\ epc = "open"
    /\ \E exc \in {Ok, PlaywrightError} :
          IF exc = Ok
          THEN /\ epc' = IF Len(plan) = 0 THEN "exit" ELSE "loop"
               /\ UNCHANGED result
          ELSE /\ epc' = "finally"
               /\ result' = [result EXCEPT !.status = "failed", !.error = <<exc>>]
    /\ UNCHANGED <<plan, screenshots, runlog, runJson, writes>>
    /\ UNCHANGED <<batchVars, compVars, restVars>>

\* lines 155-157, 166-168, 174-176: runner.log shows "Screenshot capture
\* failed" when page.screenshot was called and raised; it is called wherever
\* the policy asks for a capture, except after a retry that succeeded
ShotFailed(policy, out, shotOk) ==
    /\ ~shotOk
    /\ ShouldCapture(policy, out.sr.status = "passed")
    /\ ~(out.retried /\ out.sr.status = "passed")

\* lines 73-84: one iteration of the loop over plan.steps
ExecRunStep ==
    /\ epc = "loop"
    /\ LET index == Len(result.steps) + 1
           step == plan[index]
       IN \E first \in HandleStep(step), retry \in RetryOutcomes(step), shotOk \in BOOLEAN :
            LET out == RunStep(screenshots, step, index, first, retry, shotOk)
            IN /\ result' = [result EXCEPT
                                !.steps = Append(@, out.sr),
                                !.status = StatusAfterStep(@, out.sr.status)]
               /\ runlog' = Append(runlog, [index |-> index, attempts |-> out.attempts,
                                            retried |-> out.retried, waited |-> out.waited,
                                            first |-> out.first,
                                            retry |-> out.retry,
                                            shot_failed |-> ShotFailed(screenshots, out, shotOk)])
               /\ epc' = IF HaltsAfterStep(out.sr.status) \/ index = Len(plan)
                         THEN "exit" ELSE "loop"
    /\ UNCHANGED <<plan, screenshots, runJson, writes>>
    /\ UNCHANGED <<batchVars, compVars, restVars>>

\* leaving the context, where a crash is recorded as the error only
ExecCloseContextMut ==
    /\ epc = "exit"
    /\ \E exc \in {Ok, PlaywrightError} :
          IF exc = Ok
          THEN UNCHANGED result
          ELSE result' = [result EXCEPT !.error = <<exc>>]
    /\ epc' = "finally"
    /\ UNCHANGED <<plan, screenshots, runlog, runJson, writes>>
    /\ UNCHANGED <<batchVars, compVars, restVars>>

\* lines 348-352 and 85-88: leaving the context; context.close() or
\* browser.close() may raise, which the run records as a crash
ExecCloseContext ==
    /\ epc = "exit"
    /\ \E exc \in {Ok, PlaywrightError} :
          IF exc = Ok
          THEN UNCHANGED result
          ELSE result' = [result EXCEPT !.status = "failed", !.error = <<exc>>]
    /\ epc' = "finally"
    /\ UNCHANGED <<plan, screenshots, runlog, runJson, writes>>
    /\ UNCHANGED <<batchVars, compVars, restVars>>

\* lines 89-107 and 297-299: run.json is written and the result returned,
\* or the write raises out of run()
ExecWriteRunResult ==
    /\ epc = "finally"
    /\ \E ok \in BOOLEAN :
          IF ok
          THEN /\ runJson' = result
               /\ writes' = writes + 1
               /\ epc' = "done"
          ELSE /\ runJson' = [status |-> "truncated", steps |-> <<>>, error |-> NoError]
               /\ writes' = writes + 1
               /\ epc' = "raised"
    /\ UNCHANGED <<plan, screenshots, result, runlog>>
    /\ UNCHANGED <<batchVars, compVars, restVars>>

NoRunJson == [status |-> "absent", steps |-> <<>>, error |-> NoError]

ExecInit ==
    /\ plan \in SeqsOf(ExecSteps, 1, MaxSteps)
    /\ screenshots \in {"none", "on-failure", "all"}
    /\ epc = "start"
    /\ result = NewRunResult
    /\ runlog = <<>>
    /\ runJson = NoRunJson
    /\ writes = 0

ExecNext ==
    \/ ExecPrepare
    \/ ExecOpenContext
    \/ ExecRunStep
    \/ ExecCloseContext
    \/ ExecWriteRunResult

(***************************************************************************)
(* Batch runner (executor_mvp/batch_executor.py).                          *)
(* The items of <plan_dir>/cases: a directory holds action_plan.json or    *)
(* not, a file has the suffix .json or not; `content` is the steps of the  *)
(* plan the case file holds, or Invalid when load_action_plan rejects it.  *)
(***************************************************************************)
\* most cases --batch N asks for (0: all cases, cli.py line 163)
MaxCount == 2

\* a case file load_action_plan rejects (line 56: it holds no steps)
Invalid == <<>>

CaseItem(itemName, isDir, hasPlanFile, isJson, content) ==
    [itemName |-> itemName, isDir |-> isDir, hasPlanFile |-> hasPlanFile,
     isJson |-> isJson, content |-> content]

\* the directory entries the model draws <plan_dir>/cases from
CaseEntries ==
    { CaseItem("case_b", TRUE, TRUE, FALSE, <<ActionStep("click", ".btn", None, None, None)>>),
      CaseItem("case_b.json", FALSE, FALSE, TRUE,
               <<ActionStep("assert", ".title", None, "alice", "text_contains")>>),
      CaseItem("case_c.json", FALSE, FALSE, TRUE, Invalid),
      CaseItem("drafts", TRUE, FALSE, FALSE, Invalid) }

\* Path.stem / Path.name of the entries of the model
CaseName(item) ==
    IF item.isDir THEN item.itemName
    ELSE CASE item.itemName = "case_b.json" -> "case_b"
           [] item.itemName = "case_c.json" -> "case_c"
           [] OTHER -> item.itemName

\* the order of sorted() on the (name, path, plan_file) tuples of the model;
\* the directory case_b and the file case_b.json have the same name and the
\* path cases/case_b sorts before cases/case_b.json
CaseRank(item) ==
    CASE item.itemName = "case_b" -> 1
      [] item.itemName = "case_b.json" -> 2
      [] item.itemName = "case_c.json" -> 3
      [] OTHER -> 4

\* lines 59-66: the items discover_cases keeps
IsCase(item) ==
    IF item.isDir THEN item.hasPlanFile ELSE item.isJson

\* injective sequences of length n over S
Arrangements(S, n) ==
    { q \in [1..n -> S] : \A i, j \in 1..n : q[i] = q[j] => i = j }

\* BatchExecutor.discover_cases: the cases of the directory, sorted
DiscoverCases(dir) ==
    LET kept == { e \in dir : IsCase(e) }
    IN CHOOSE q \in Arrangements(kept, Cardinality(kept)) :
          \A i, j \in 1..Cardinality(kept) : i < j => CaseRank(q[i]) < CaseRank(q[j])

\* BatchExecutor.select_random_cases: every sample random.sample can draw
SelectRandomCases(items, count) ==
    IF count >= Len(items) THEN {items}
    ELSE Arrangements({ items[i] : i \in 1..Len(items) }, count)

\* lines 117-118: the cases run_batch goes through
SelectedCases(dir, count) ==
    IF count > 0 THEN SelectRandomCases(DiscoverCases(dir), count)
    ELSE {DiscoverCases(dir)}

\* _run_single_case, line 185: case_output_dir = batch_dir / case_name
CaseOutputDir(item) == CaseName(item)

\* a run.json that Executor.run has written: its directory and its case
RunFile(item) == [dir |-> CaseOutputDir(item), item |-> item.itemName]

\* line 108: BatchResult
NewBatchResult ==
    [total_cases |-> 0, passed_cases |-> 0, failed_cases |-> 0, error_cases |-> 0,
     case_results |-> <<>>]

TallyExceptionMut(b) == b

\* lines 145-147: a case whose loading or execution raised
TallyException(b) == [b EXCEPT !.error_cases = @ + 1]

\* lines 136-143: a case whose executor returned a RunResult
TallyResult(b, case_result) ==
    LET counted ==
          IF case_result.status = "passed" THEN [b EXCEPT !.passed_cases = @ + 1]
          ELSE IF case_result.status = "failed" THEN [b EXCEPT !.failed_cases = @ + 1]
          ELSE [b EXCEPT !.error_cases = @ + 1]
    IN [counted EXCEPT !.case_results = Append(@, case_result)]

BatchGoesOnMut(raised) == ~raised

\* lines 125-147: the loop goes on to the next case whatever the case did
BatchGoesOn(raised) == TRUE

\* BatchExecutor._write_batch_summary
BatchSummary(b) ==
    [total_cases |-> b.total_cases, passed_cases |-> b.passed_cases,
     failed_cases |-> b.failed_cases, error_cases |-> b.error_cases,
     cases |-> [i \in 1..Len(b.case_results) |-> b.case_results[i].status]]

NoFile == [written |-> "absent"]

\* SimpleReportGenerator.generate_execution_report: what test_report.md holds
\* when the call ends.  Lines 94-105 are written before line 106 divides by
\* the number of results, so with no result the call raises ZeroDivisionError
\* and leaves the head of the report.
GenerateExecutionReport(run_results) ==
    LET total_cases == Len(run_results)
        passed_cases == Cardinality({ i \in 1..Len(run_results) : run_results[i].status = "passed" })
        failed_cases == total_cases - passed_cases
        failed_details == SelectSeq(run_results, LAMBDA r : r.status = "failed")
        passed_details == SelectSeq(run_results, LAMBDA r : r.status # "failed")
    IN [written |-> IF total_cases = 0 THEN "truncated" ELSE "complete",
        total_cases |-> total_cases, passed_cases |-> passed_cases,
        failed_cases |-> failed_cases,
        failed_rows |-> IF total_cases = 0 THEN 0 ELSE Len(failed_details),
        passed_rows |-> IF total_cases = 0 THEN 0 ELSE Len(passed_details)]

(***************************************************************************)
(* BatchExecutor.run_batch, one action per stage.                          *)
(*   start   -> (discover, select)             -> loop | raised            *)
(*   loop    -> load the next case             -> running | loop           *)
(*   running -> Executor.run's actions, then the tally -> loop             *)
(*   loop    -> (batch_summary.json)           -> report                   *)
(*   report  -> (test_report.md)               -> returned | raised        *)
(* The batch directory is taken to be writable.                            *)
(***************************************************************************)

\* lines 105-123
BatchDiscover ==
    /\ bpc = "start"
    /\ IF ~hasCasesDir
       THEN /\ bpc' = "raised"
            /\ UNCHANGED <<case_items, batch>>
       ELSE \E sel \in SelectedCases(casesDir, case_count) :
               /\ case_items' = sel
               /\ batch' = [batch EXCEPT !.total_cases = Len(sel)]
               /\ bpc' = "loop"
    /\ UNCHANGED <<hasCasesDir, casesDir, case_count, run_files, attempted, summaryJson, reportMd>>
    /\ UNCHANGED <<execVars, compVars, restVars>>

\* lines 125-134 and 145-147: the next case is loaded; an invalid plan raises
\* and counts as an error, a valid one is handed to a fresh Executor
BatchLoadCase ==
    /\ bpc = "loop"
    /\ Len(attempted) < Len(case_items)
    /\ LET case == case_items[Len(attempted) + 1]
       IN /\ attempted' = Append(attempted, case.itemName)
          /\ IF case.content = Invalid
             THEN /\ batch' = TallyException(batch)
                  /\ bpc' = IF BatchGoesOn(TRUE) THEN "loop" ELSE "summary"
                  /\ UNCHANGED execVars
             ELSE /\ plan' = case.content
                  /\ epc' = "start"
                  /\ result' = NewRunResult
                  /\ runlog' = <<>>
                  /\ runJson' = NoRunJson
                  /\ writes' = 0
                  /\ bpc' = "running"
                  /\ UNCHANGED <<batch, screenshots>>
    /\ UNCHANGED <<hasCasesDir, casesDir, case_count, run_files, case_items, summaryJson, reportMd>>
    /\ UNCHANGED <<compVars, restVars>>

\* lines 134-147: Executor.run returned or raised
BatchCollect ==
    /\ bpc = "running"
    /\ epc \in {"done", "raised"}
    /\ batch' = IF epc = "done" THEN TallyResult(batch, result) ELSE TallyException(batch)
    /\ bpc' = IF BatchGoesOn(epc = "raised" \/ result.status # "passed") THEN "loop" ELSE "summary"
    /\ epc' = "idle"
    /\ run_files' = IF runJson = NoRunJson THEN run_files
                    ELSE Append(run_files, RunFile(case_items[Len(attempted)]))
    /\ UNCHANGED <<hasCasesDir, casesDir, case_count, case_items, attempted, summaryJson, reportMd>>
    /\ UNCHANGED <<plan, screenshots, result, runlog, runJson, writes>>
    /\ UNCHANGED <<compVars, restVars>>

\* lines 149-151
BatchWriteSummary ==
    /\ \/ bpc = "loop" /\ Len(attempted) = Len(case_items)
       \/ bpc = "summary"
    /\ summaryJson' = [written |-> "complete", summary |-> BatchSummary(batch)]
    /\ bpc' = "report"
    /\ UNCHANGED <<hasCasesDir, casesDir, case_count, run_files, case_items, batch, attempted, reportMd>>
    /\ UNCHANGED <<execVars, compVars, restVars>>

\* lines 153-163
BatchReport ==
    /\ bpc = "report"
    /\ reportMd' = GenerateExecutionReport(batch.case_results)
    /\ bpc' = IF reportMd'.written = "complete" THEN "returned" ELSE "raised"
    /\ UNCHANGED <<hasCasesDir, casesDir, case_count, run_files, case_items, batch, attempted, summaryJson>>
    /\ UNCHANGED <<execVars, compVars, restVars>>

BatchIdle ==
    /\ hasCasesDir = FALSE
    /\ casesDir = {}
    /\ case_count = 0
    /\ bpc = "idle"
    /\ case_items = <<>>
    /\ batch = NewBatchResult
    /\ attempted = <<>>
    /\ run_files = <<>>
    /\ summaryJson = NoFile
    /\ reportMd = NoFile

BatchInit ==
    /\ hasCasesDir \in BOOLEAN
    /\ casesDir \in IF hasCasesDir THEN SUBSET CaseEntries ELSE {{}}
    /\ case_count \in 0..MaxCount
    /\ bpc = "start"
    /\ case_items = <<>>
    /\ batch = NewBatchResult
    /\ attempted = <<>>
    /\ run_files = <<>>
    /\ summaryJson = NoFile
    /\ reportMd = NoFile
    /\ plan = <<>>
    /\ screenshots \in {"on-failure", "all"}
    /\ epc = "idle"
    /\ result = NewRunResult
    /\ runlog = <<>>
    /\ runJson = NoRunJson
    /\ writes = 0

BatchNext ==
    \/ BatchDiscover
    \/ BatchLoadCase
    \/ ExecPrepare
    \/ ExecOpenContext
    \/ ExecRunStep
    \/ ExecCloseContext
    \/ ExecWriteRunResult
    \/ BatchCollect
    \/ BatchWriteSummary
    \/ BatchReport

(***************************************************************************)
(* LLM compilation pipeline (compiler_mvp/llm_pipeline.py).                *)
(*                                                                         *)
(* Selectors.  The pipeline searches selectors for substrings and rewrites *)
(* them with a regular expression, so the model keeps a selector in        *)
(* pieces: the compound selectors that blanks separate (`parts`) and the   *)
(* suffixes that follow the last of them (`mods`), each of one form:       *)
(*     has_text          :has-text("v")                                    *)
(*     contains_quoted   :contains('v')                                    *)
(*     contains_bare     :contains(v)                                      *)
(*     pseudo_element    ::v                                               *)
(*     xpath_text        [text()='v']                                      *)
(* What a piece of text contains (keywords, tokens) is given by tables     *)
(* over the texts of the model, worked out as the code's `in` tests and    *)
(* regular expressions work them out on the lowercased text.  The Chinese  *)
(* keywords of the code's lists are left out: no text of the model holds   *)
(* one.                                                                    *)
(***************************************************************************)
\* longest list of steps the LLM answers with
MaxPlanLen == 2
\* largest max_attempts the pipeline is built with
MaxAttempts == 2

Sel(parts, mods) == [parts |-> parts, mods |-> mods]
Mod(m, v) == [m |-> m, v |-> v]
\* step.get("selector") of a step without selector
NoSelector == Sel(<<>>, <<>>)

\* <<>> for Python's None where the value is a structure, <<x>> for x
Nothing == <<>>
Some(x) == <<x>>

\* line 17 and lines 406-414: only the quoted form of :contains is rewritten
SanitizeSelector(selector) ==
    [selector EXCEPT !.mods =
        [i \in DOMAIN selector.mods |->
            IF selector.mods[i].m = "contains_quoted"
            THEN Mod("has_text", selector.mods[i].v)
            ELSE selector.mods[i]]]

AppendHasTextMut(selector, value) == selector

\* lines 307-312
AppendHasText(selector, value) ==
    IF \E i \in DOMAIN selector.mods : selector.mods[i].m = "has_text"
    THEN selector
    ELSE [selector EXCEPT !.mods = Append(@, Mod("has_text", value))]

\* lines 623 and 639: ":contains", "::", "contains(", "[text()" occur in the selector
DisallowedMods == {"contains_quoted", "contains_bare", "pseudo_element", "xpath_text"}
UsesDisallowedPattern(selector) ==
    \E i \in DOMAIN selector.mods : selector.mods[i].m \in DisallowedMods

\* `needle in haystack.lower()` for two selectors: the needle's parts occur
\* in a row among the haystack's (no part of the model is a substring of
\* another part)
SelectorContains(haystack, needle) ==
    /\ needle.mods = <<>>
    /\ needle.parts # <<>>
    /\ \E k \in 0..(Len(haystack.parts) - Len(needle.parts)) :
          \A j \in 1..Len(needle.parts) : haystack.parts[k + j] = needle.parts[j]

\* 'proView_list' in selector (lines 375, 383, 388: on the selector as written)
HasProViewList(selector) ==
    \E i \in DOMAIN selector.parts : selector.parts[i] = ".proView_list"

\* the keywords of lines 328-329 and "img" (line 291) that occur in a
\* lowercased piece of a selector
PartNeedles(part) ==
    CASE part = ".proView_list" -> {"p"}
      [] part = "p.name"        -> {"p", "name"}
      [] part = "img.cover"     -> {"img"}
      [] OTHER                  -> {}

ModNeedles(mod) ==
    CASE mod.m = "has_text"   -> {"text"}
      [] mod.m = "xpath_text" -> {"text"}
      [] OTHER                -> {}

SelectorNeedles(selector) ==
    UNION ({PartNeedles(selector.parts[i]) : i \in DOMAIN selector.parts}
           \cup {ModNeedles(selector.mods[i]) : i \in DOMAIN selector.mods})

\* the keywords of lines 266, 284-285, 291, 328, 362 and 401 that occur in
\* the lowercased name or description of an alias
TextNeedles(text) ==
    CASE text = "product.name" -> {"name", "p"}
      [] text = "product.buy"  -> {"buy", "p"}
      [] text = "detail.image" -> {"image"}
      [] text = "product name" -> {"name", "p"}
      [] text = "buy button"   -> {"buy", "button"}
      [] OTHER                 -> {}

\* lines 649-661: _extract_tokens, on names and descriptions
ExtractTokens(text) ==
    CASE text = "product.name" -> {"product", "name"}
      [] text = "product.buy"  -> {"product", "buy"}
      [] text = "detail.image" -> {"detail", "image"}
      [] text = "nav.home"     -> {"nav", "home"}
      [] text = "product name" -> {"product", "name"}
      [] text = "buy button"   -> {"buy", "button"}
      [] text = "main area"    -> {"main", "area"}
      [] OTHER                 -> {}

\* lines 649-661: _extract_tokens, on the pieces of a selector (of the
\* tokens of a suffix only those made of letters are kept: the others, like
\* text("book, equal no keyword and no token of a name)
PartTokens(part) ==
    CASE part = ".proView_list" -> {"proview", "list"}
      [] part = "p.name"        -> {"name"}
      [] part = "a.buy_list"    -> {"buy", "list"}
      [] part = "img.cover"     -> {"img", "cover"}
      [] part = "#kw"           -> {"kw"}
      [] part = ".item"         -> {"item"}
      [] part = "a.more"        -> {"more"}
      [] part = "a.home"        -> {"home"}
      [] OTHER                  -> {}

ValueTokens(v) ==
    CASE v = "Book A" -> {"book"}
      [] v = "before" -> {"before"}
      [] OTHER        -> {}

ModTokens(mod) ==
    CASE mod.m = "has_text"        -> {"has", "text"} \cup ValueTokens(mod.v)
      [] mod.m = "contains_quoted" -> {"contains"} \cup ValueTokens(mod.v)
      [] mod.m = "contains_bare"   -> {"contains"} \cup ValueTokens(mod.v)
      [] mod.m = "pseudo_element"  -> ValueTokens(mod.v)
      [] mod.m = "xpath_text"      -> {"text"} \cup ValueTokens(mod.v)
      [] OTHER                     -> {}

SelectorTokens(selector) ==
    UNION ({PartTokens(selector.parts[i]) : i \in DOMAIN selector.parts}
           \cup {ModTokens(selector.mods[i]) : i \in DOMAIN selector.mods})

(***************************************************************************)
(* Site profiles (compiler_mvp/models.py SiteAlias,                        *)
(* site_profile_loader.py): the aliases in the order of the dict; a loaded *)
(* profile has at least one alias, alias names are the dict's keys.        *)
(***************************************************************************)
SiteAlias(name, selector, description, page_id) ==
    [name |-> name, selector |-> selector, description |-> description, page_id |-> page_id]

SelName == Sel(<<".proView_list", "p.name">>, <<>>)
SelBuy == Sel(<<".proView_list", "a.buy_list">>, <<>>)
SelImage == Sel(<<"img.cover">>, <<>>)
SelHome == Sel(<<"a.home">>, <<>>)

ShopProfile ==
    << SiteAlias("product.name", SelName, "product name", "list"),
       SiteAlias("product.buy", SelBuy, "buy button", "list"),
       SiteAlias("detail.image", SelImage, None, "detail") >>

NavProfile == << SiteAlias("nav.home", SelHome, "main area", "home") >>

Profiles == {ShopProfile, NavProfile}

\* the keywords of an alias's lowercased name and description
\* (alias.description or "")
AliasNeedles(alias) == TextNeedles(alias.name) \cup TextNeedles(alias.description)
NameTokens(alias) == ExtractTokens(alias.name)
DescTokens(alias) == ExtractTokens(alias.description)

Min(S) == CHOOSE x \in S : \A y \in S : x <= y
Max(S) == CHOOSE x \in S : \A y \in S : x >= y

\* what the alias matchers return: the selector and the index of the alias
\* in the profile (0: None)
Matched(selector, alias) == [selector |-> selector, alias |-> alias]

\* lines 526-529, 578-581, 602-605
InteractiveKeywords ==
    {"button", "btn", "buy", "purchase", "click", "link", "submit", "confirm",
     "buy_list", "buybtn"}
InputKeywords ==
    {"input", "field", "textbox", "text", "search", "fill", "enter",
     "searchData", "searchDatahead"}
DisplayKeywords ==
    {"title", "text", "label", "name", "content", "value", "price",
     "h1", "h2", "h3", "h4", "h5", "h6"}

\* lines 535-560: the score of one alias for a click
ClickScore(selector, alias) ==
    LET selector_tokens == SelectorTokens(selector)
        name_interactive_matches == Cardinality(NameTokens(alias) \cap InteractiveKeywords)
        desc_interactive_matches == Cardinality(DescTokens(alias) \cap InteractiveKeywords)
        selector_similarity == Cardinality(selector_tokens \cap NameTokens(alias))
        product_text == /\ ({"product", "item"} \cap selector_tokens) # {}
                        /\ "name" \in selector_tokens
                        /\ name_interactive_matches + desc_interactive_matches > 0
                        /\ ({"buy", "purchase", "buy_list"} \cap AliasNeedles(alias)) # {}
    IN 10 * (name_interactive_matches + desc_interactive_matches)
       + 5 * selector_similarity
       + (IF product_text THEN 15 ELSE 0)

\* lines 519-569
FindClickTargetAlias(selector, aliases) ==
    LET best_score == Max({0} \cup {ClickScore(selector, aliases[i]) : i \in DOMAIN aliases})
    IN IF best_score > 5
       THEN LET best == Min({i \in DOMAIN aliases : ClickScore(selector, aliases[i]) = best_score})
            IN Matched(aliases[best].selector, best)
       ELSE Matched(selector, 0)

\* lines 571-593
FindInputTargetAlias(selector, aliases) ==
    LET hits == {i \in DOMAIN aliases :
                    \/ (NameTokens(aliases[i]) \cap InputKeywords) # {}
                    \/ (DescTokens(aliases[i]) \cap InputKeywords) # {}
                    \/ (SelectorTokens(selector) \cap InputKeywords) # {}}
    IN IF hits # {} THEN Matched(aliases[Min(hits)].selector, Min(hits))
       ELSE Matched(selector, 0)

\* lines 595-616
FindAssertTargetAlias(selector, aliases) ==
    LET hits == {i \in DOMAIN aliases :
                    \/ (NameTokens(aliases[i]) \cap DisplayKeywords) # {}
                    \/ (DescTokens(aliases[i]) \cap DisplayKeywords) # {}}
    IN IF hits # {} THEN Matched(aliases[Min(hits)].selector, Min(hits))
       ELSE Matched(selector, 0)

\* lines 416-444.  Lines 446-517 are reached by steps that are neither
\* click, fill nor assert and yet carry a selector; the steps of the model
\* carry a selector only when they are of these three types.
FallbackSelectorToProfile(selector, step, aliases) ==
    LET same == {i \in DOMAIN aliases : aliases[i].selector = selector}
        inside == {i \in DOMAIN aliases : SelectorContains(selector, aliases[i].selector)}
    IN IF aliases = <<>> THEN Matched(selector, 0)
       ELSE IF same # {} THEN Matched(selector, Max(same))
       ELSE IF inside # {} THEN Matched(aliases[Min(inside)].selector, Min(inside))
       ELSE IF step.t = "click" THEN FindClickTargetAlias(selector, aliases)
       ELSE IF step.t = "fill" THEN FindInputTargetAlias(selector, aliases)
       ELSE IF step.t = "assert" THEN FindAssertTargetAlias(selector, aliases)
       ELSE Matched(selector, 0)

(***************************************************************************)
(* Context threading (_post_process_steps and its helpers).                *)
(* value_by_alias is keyed by alias.selector and alias.name, always set    *)
(* together, and names and selectors are unique in a profile: the model    *)
(* keys it by the index of the alias.                                      *)
(***************************************************************************)
COUNT_ASSERT_KINDS == {"count_equals", "count_at_least"}
ProductNameIndicators == {"name", "title", "p", "h3", "h4", "h5", "h6"}
TextElementIndicators == {"text", "content", "label"}
BuyKeywords == {"buy", "purchase", "buy_list", "shoppingCart_list"}
BuyButtonIndicators ==
    {"buy", "purchase", "button", "btn", "list_buyBox", "buy_list", "shoppingCart_list"}

\* value_by_alias.get(alias.selector) or value_by_alias.get(alias.name)
ValueOfAlias(value_by_alias, alias) ==
    IF alias = 0 THEN None ELSE value_by_alias[alias]

\* lines 395-404
FindRelatedItemAlias(list_alias, aliases) ==
    LET hits == {i \in DOMAIN aliases :
                    /\ i # list_alias
                    /\ "item" \in TextNeedles(aliases[i].name)
                    /\ ({"university", "result"} \cap TextNeedles(aliases[i].name)) # {}
                    /\ SelectorContains(aliases[i].selector, aliases[list_alias].selector)}
    IN IF hits = {} THEN 0 ELSE Min(hits)

NotCorrected == [found |-> FALSE, selector |-> NoSelector, alias |-> 0, value |-> None]

\* lines 314-393.  Line 347 looks for 'proView_list' in the lowercased
\* selector, which never holds it.
CorrectProductTextToBuyButton(selector, step, alias, aliases, value_by_alias, last_value) ==
    LET by_alias == /\ alias # 0
                    /\ (ProductNameIndicators \cap AliasNeedles(aliases[alias])) # {}
        by_selector == \/ (ProductNameIndicators \cap SelectorNeedles(selector)) # {}
                       \/ (TextElementIndicators \cap SelectorNeedles(selector)) # {}
        is_product_name == by_alias \/ by_selector
        target_page_id == IF alias # 0 THEN aliases[alias].page_id ELSE None
        is_buy_button(c) == (BuyButtonIndicators \cap AliasNeedles(aliases[c])) # {}
        page_matches(c) == IF target_page_id # None
                           THEN aliases[c].page_id = target_page_id
                           ELSE HasProViewList(aliases[c].selector)
        common_parts(c) == {aliases[alias].selector.parts[i] : i \in DOMAIN aliases[alias].selector.parts}
                           \cap {aliases[c].selector.parts[i] : i \in DOMAIN aliases[c].selector.parts}
        same_container(c) == IF alias # 0
                             THEN \/ Cardinality(common_parts(c)) >= 2
                                  \/ HasProViewList(aliases[c].selector)
                             ELSE HasProViewList(aliases[c].selector)
        hits == {c \in DOMAIN aliases : is_buy_button(c) /\ page_matches(c) /\ same_container(c)}
    IN IF ~is_product_name \/ hits = {} THEN NotCorrected
       ELSE [found |-> TRUE,
             selector |-> aliases[Min(hits)].selector,
             alias |-> Min(hits),
             value |-> IF step.value # None THEN step.value
                       ELSE IF alias # 0 THEN value_by_alias[alias]
                       ELSE last_value]

\* the state the loop of _post_process_steps carries from step to step
Threaded(step, value_by_alias, last_value) ==
    [step |-> step, value_by_alias |-> value_by_alias, last_value |-> last_value]

Remember(value_by_alias, alias, value) ==
    IF alias = 0 THEN value_by_alias ELSE [value_by_alias EXCEPT ![alias] = value]

\* lines 241-260
PostProcessAssert(step, alias, value_by_alias, last_value) ==
    IF step.kind \in COUNT_ASSERT_KINDS
    THEN Threaded(IF step.value = None /\ last_value # None
                  THEN [step EXCEPT !.value = last_value] ELSE step,
                  value_by_alias, last_value)
    ELSE LET own == step.value
             from_alias == IF own = None /\ alias # 0
                           THEN ValueOfAlias(value_by_alias, alias) ELSE own
             value == IF from_alias = None THEN last_value ELSE from_alias
         IN IF value = None THEN Threaded(step, value_by_alias, last_value)
            ELSE Threaded([step EXCEPT !.kind = IF @ = None THEN "text_contains" ELSE @,
                                       !.value = value,
                                       !.selector = AppendHasText(@, value)],
                          Remember(value_by_alias, alias, value), value)

\* lines 262-305
PostProcessClick(step, matched_alias, aliases, value_by_alias, last_value) ==
    LET own == step.value
        from_alias == IF own = None /\ matched_alias # 0
                      THEN ValueOfAlias(value_by_alias, matched_alias) ELSE own
        related == IF /\ own = None /\ matched_alias # 0 /\ from_alias = None
                      /\ "list" \in TextNeedles(aliases[matched_alias].name)
                   THEN FindRelatedItemAlias(matched_alias, aliases) ELSE 0
        alias1 == IF related # 0 THEN related ELSE matched_alias
        selector1 == IF related # 0 THEN aliases[related].selector ELSE step.selector
        value1 == IF related # 0 THEN ValueOfAlias(value_by_alias, related) ELSE from_alias
        value2 == IF value1 = None THEN last_value ELSE value1
        corrected == CorrectProductTextToBuyButton(selector1, step, alias1, aliases,
                                                   value_by_alias, last_value)
        selector == IF corrected.found THEN corrected.selector ELSE selector1
        alias == IF corrected.found THEN corrected.alias ELSE alias1
        value == IF corrected.found THEN corrected.value ELSE value2
        is_buy_button == alias # 0 /\ (BuyKeywords \cap AliasNeedles(aliases[alias])) # {}
        is_image_assertion ==
            /\ step.kind = "visible"
            /\ \/ "img" \in SelectorNeedles(selector)
               \/ alias # 0 /\ "image" \in TextNeedles(aliases[alias].name)
    IN IF value = None THEN Threaded(step, value_by_alias, last_value)
       ELSE Threaded(
              IF is_buy_button \/ is_image_assertion
              THEN [step EXCEPT !.selector = selector,
                                !.value = IF is_image_assertion THEN None ELSE @]
              ELSE [step EXCEPT !.selector = AppendHasText(selector, value),
                                !.value = IF @ = None THEN value ELSE @],
              IF is_image_assertion THEN value_by_alias
              ELSE Remember(value_by_alias, alias, value),
              last_value)

\* lines 224-305: one turn of the loop
PostProcessStep(step, alias, aliases, value_by_alias, last_value) ==
    IF step.selector = NoSelector THEN Threaded(step, value_by_alias, last_value)
    ELSE IF step.kind = "text_contains" /\ step.value # None
    THEN Threaded([step EXCEPT !.selector = AppendHasText(@, step.value)],
                  Remember(value_by_alias, alias, step.value), step.value)
    ELSE IF step.t = "assert" THEN PostProcessAssert(step, alias, value_by_alias, last_value)
    ELSE IF step.t = "click"
    THEN PostProcessClick(step, alias, aliases, value_by_alias, last_value)
    ELSE Threaded(step, value_by_alias, last_value)

RECURSIVE PostProcessFrom(_, _, _, _, _, _)
PostProcessFrom(index, steps, matched_aliases, aliases, value_by_alias, last_value) ==
    IF index > Len(steps) THEN steps
    ELSE LET turn == PostProcessStep(steps[index], matched_aliases[index], aliases,
                                     value_by_alias, last_value)
         IN PostProcessFrom(index + 1, [steps EXCEPT ![index] = turn.step],
                            matched_aliases, aliases, turn.value_by_alias, turn.last_value)

\* lines 214-222
PostProcessSteps(steps, matched_aliases, aliases) ==
    PostProcessFrom(1, steps, matched_aliases, aliases, [i \in DOMAIN aliases |-> None], None)

(***************************************************************************)
(* The payload: what json.loads makes of the LLM's answer.                 *)
(***************************************************************************)
Payload(testId, baseUrl, steps) ==
    [meta |-> [testId |-> testId, baseUrl |-> baseUrl], steps |-> steps]

SelKw == Sel(<<"#kw">>, <<>>)
SelItem == Sel(<<".item">>, <<>>)
SelMoreQuoted == Sel(<<"a.more">>, <<Mod("contains_quoted", "Book A")>>)
SelMorePseudo == Sel(<<"a.more">>, <<Mod("pseudo_element", "before")>>)
SelMoreOther == Sel(<<"a.more">>, <<Mod("has_text", "Book B")>>)

\* the steps the answers of the model are built from
LLMSteps ==
    { ActionStep("goto", NoSelector, "/list", None, None),
      ActionStep("fill", SelKw, None, "Book A", None),
      ActionStep("assert", SelName, None, "Book A", "text_contains"),
      ActionStep("assert", SelItem, None, None, "count_equals"),
      ActionStep("assert", SelImage, None, None, "visible"),
      ActionStep("click", SelBuy, None, None, None),
      ActionStep("click", SelName, None, None, None),
      ActionStep("click", SelMoreQuoted, None, None, None),
      ActionStep("click", SelMorePseudo, None, None, None),
      ActionStep("click", SelMoreOther, None, None, None) }

\* steps that break the schema: a fill without value, an assertion of an
\* unknown kind
BrokenLLMSteps ==
    { ActionStep("fill", SelKw, None, None, None),
      ActionStep("assert", SelItem, None, None, "exists") }

\* the answers of the model: every list of steps up to the bound, and the
\* lists that a broken step makes of a goto
LLMPayloads ==
    { Payload("REQ-1", "https://llm.example/", steps) : steps \in SeqsOf(LLMSteps, 1, MaxPlanLen) }
    \cup { Payload("REQ-1", "https://llm.example/", <<broken>>) : broken \in BrokenLLMSteps }
    \cup { Payload("REQ-1", "https://llm.example/",
                   <<ActionStep("goto", NoSelector, "/list", None, None), broken>>) :
              broken \in BrokenLLMSteps }

\* The DSL schema of the action plan.  The schema file is read from
\* schema_path (llm_agents.py load_dsl_specification) and is not part of the
\* sources: the validator is written from the specification, section 4.4.
\* A value is required of the text_* kinds; of the count_* kinds the value,
\* when there is one, is a non-negative integer.
TEXT_ASSERT_KINDS == {"text_contains", "text_equals", "text_regex"}
SchemaAssertKinds == {"visible", "invisible"} \cup TEXT_ASSERT_KINDS \cup COUNT_ASSERT_KINDS

StepSchemaValid(step) ==
    /\ step.t \in {"goto", "fill", "click", "assert"}
    /\ step.t = "goto" => step.url # None
    /\ step.t = "fill" => step.selector # NoSelector /\ step.value # None
    /\ step.t = "click" => step.selector # NoSelector
    /\ step.t = "assert" =>
          /\ step.selector # NoSelector
          /\ step.kind \in SchemaAssertKinds
          /\ step.kind \in TEXT_ASSERT_KINDS => step.value # None
          /\ (step.kind \in COUNT_ASSERT_KINDS /\ step.value # None) => IsDigits(step.value)

SchemaValid(payload) ==
    /\ payload.meta.testId # None
    /\ payload.meta.baseUrl # None
    /\ \A i \in DOMAIN payload.steps : StepSchemaValid(payload.steps[i])

\* str.rstrip("/") on the base URLs of the model
RStripSlash(url) ==
    CASE url = "https://llm.example/"  -> "https://llm.example"
      [] url = "https://shop.example/" -> "https://shop.example"
      [] OTHER                         -> url

\* lines 38-44 on the title of the request of the model, "Buy book"
DeriveTestId == "REQ-BUY-BOOK"

\* lines 146-157
EnsureMetadata(payload, base_url_of_request) ==
    LET testId == IF payload.meta.testId = None THEN DeriveTestId ELSE payload.meta.testId
        base_url == IF base_url_of_request # None THEN RStripSlash(base_url_of_request)
                    ELSE payload.meta.baseUrl
    IN [payload EXCEPT !.meta = [testId |-> testId,
                                 baseUrl |-> IF base_url # None THEN RStripSlash(base_url)
                                             ELSE payload.meta.baseUrl]]

\* lines 170-186: sanitize each selector and snap it to the profile
SnapStep(step, aliases) ==
    IF step.selector = NoSelector THEN Matched(NoSelector, 0)
    ELSE FallbackSelectorToProfile(SanitizeSelector(step.selector), step, aliases)

\* lines 167-203: the payload that json.dump writes to action_plan.json
MaterializePlan(payload, aliases) ==
    LET snapped == [i \in DOMAIN payload.steps |-> SnapStep(payload.steps[i], aliases)]
        sanitized_steps == [i \in DOMAIN payload.steps |->
                               [payload.steps[i] EXCEPT !.selector = snapped[i].selector]]
        matched_aliases == [i \in DOMAIN payload.steps |-> snapped[i].alias]
    IN [payload EXCEPT !.steps = PostProcessSteps(sanitized_steps, matched_aliases, aliases)]

\* lines 205-212
CompilationResult(payload) ==
    [test_id |-> payload.meta.testId, base_url |-> payload.meta.baseUrl,
     steps |-> payload.steps]

\* lines 624-632
AllowedStepKinds ==
    {"visible", "text_contains", "text_equals", "text_regex", "invisible",
     "count_equals", "count_at_least"}

\* lines 618-647: the errors _validate_against_profile collects
ProfileErrors(steps) ==
    {<<i, "selector">> : i \in {j \in DOMAIN steps :
         steps[j].selector # NoSelector /\ UsesDisallowedPattern(steps[j].selector)}}
    \cup {<<i, "value">> : i \in {j \in DOMAIN steps :
         steps[j].t = "fill" /\ steps[j].value = None}}
    \cup {<<i, "kind">> : i \in {j \in DOMAIN steps :
         steps[j].kind # None /\ steps[j].kind \notin AllowedStepKinds}}

(***************************************************************************)
(* LLMCompilationPipeline.run                                              *)
(***************************************************************************)
\* what client.chat_completion gives: LLMClientError, or a completion that
\* holds no JSON object, one that json.loads rejects, or a payload
LLMClientError == "LLMClientError"
NoJsonObject == "LLM output did not contain a JSON object"
JsonDecodeError == "JSON parse failed"
SchemaViolation == "schema violation"

Completions ==
    {[outcome |-> o, payload |-> Nothing] : o \in {LLMClientError, NoJsonObject, JsonDecodeError}}
    \cup {[outcome |-> "json", payload |-> Some(p)] : p \in LLMPayloads}

Message(role, content) == [role |-> role, content |-> content]

\* lines 119-132
InitialMessages ==
    << Message("system", "system_prompt"), Message("user", "spec_prompt"),
       Message("user", "scenario_prompt") >>

\* the errors run raises
LLMCallFailed == "RuntimeError: LLM call failed"
AttemptsExhausted == "RuntimeError: no valid DSL after several attempts"
PolicyError == "ValueError: plan breaks the selector policy"

\* lines 77-103: one turn of the repair loop
CompileAttempt ==
    /\ cpc = "loop"
    /\ ~accepted
    /\ attempts < max_attempts
    /\ attempts' = attempts + 1
    /\ \E completion \in Completions :
          IF completion.outcome = LLMClientError
          THEN /\ cpc' = "raised"
               /\ compile_error' = LLMCallFailed
               /\ UNCHANGED <<accepted, messages, validation_error, response_payload>>
          ELSE IF completion.outcome \in {NoJsonObject, JsonDecodeError}
          THEN /\ validation_error' = completion.outcome
               /\ messages' = Append(messages, Message("user", completion.outcome))
               /\ UNCHANGED <<cpc, compile_error, accepted, response_payload>>
          ELSE /\ response_payload' = completion.payload
               /\ IF SchemaValid(completion.payload[1])
                  THEN /\ validation_error' = None
                       /\ accepted' = TRUE
                       /\ UNCHANGED messages
                  ELSE /\ validation_error' = SchemaViolation
                       /\ messages' = Append(messages, Message("user", SchemaViolation))
                       /\ UNCHANGED accepted
               /\ UNCHANGED <<cpc, compile_error>>
    /\ UNCHANGED <<profile, request_base_url, max_attempts, planFile, compiled>>
    /\ UNCHANGED <<execVars, batchVars, restVars>>

\* lines 105-106
CompileGiveUp ==
    /\ cpc = "loop"
    /\ accepted \/ attempts >= max_attempts
    /\ validation_error # None \/ response_payload = Nothing
    /\ cpc' = "raised"
    /\ compile_error' = AttemptsExhausted
    /\ UNCHANGED <<profile, request_base_url, max_attempts, attempts, accepted, messages,
                   validation_error, response_payload, planFile, compiled>>
    /\ UNCHANGED <<execVars, batchVars, restVars>>

\* lines 108-115: _ensure_metadata and _materialize_plan, which writes
\* action_plan.json
CompileMaterialize ==
    /\ cpc = "loop"
    /\ accepted \/ attempts >= max_attempts
    /\ ~(validation_error # None \/ response_payload = Nothing)
    /\ LET enriched_payload == EnsureMetadata(response_payload[1], request_base_url)
           payload == MaterializePlan(enriched_payload, profile)
       IN /\ planFile' = Some(payload)
          /\ compiled' = Some(CompilationResult(payload))
    /\ cpc' = "validate"
    /\ UNCHANGED <<profile, request_base_url, max_attempts, attempts, accepted, messages,
                   validation_error, response_payload, compile_error>>
    /\ UNCHANGED <<execVars, batchVars, restVars>>

\* lines 116-117
CompileValidateAgainstProfile ==
    /\ cpc = "validate"
    /\ IF ProfileErrors(compiled[1].steps) # {}
       THEN cpc' = "raised" /\ compile_error' = PolicyError
       ELSE cpc' = "returned" /\ UNCHANGED compile_error
    /\ UNCHANGED <<profile, request_base_url, max_attempts, attempts, accepted, messages,
                   validation_error, response_payload, planFile, compiled>>
    /\ UNCHANGED <<execVars, batchVars, restVars>>

CompileIdle ==
    /\ profile = NavProfile
    /\ request_base_url = None
    /\ max_attempts = 1
    /\ cpc = "idle"
    /\ attempts = 0
    /\ accepted = FALSE
    /\ messages = <<>>
    /\ validation_error = None
    /\ response_payload = Nothing
    /\ planFile = Nothing
    /\ compiled = Nothing
    /\ compile_error = None

\* lines 73-75
CompileInit ==
    /\ profile \in Profiles
    /\ request_base_url \in {None, "https://shop.example/"}
    /\ max_attempts \in 1..MaxAttempts
    /\ cpc = "loop"
    /\ attempts = 0
    /\ accepted = FALSE
    /\ messages = InitialMessages
    /\ validation_error = None
    /\ response_payload = Nothing
    /\ planFile = Nothing
    /\ compiled = Nothing
    /\ compile_error = None

ExecIdle ==
    /\ plan = <<>>
    /\ screenshots = "none"
    /\ epc = "idle"
    /\ result = NewRunResult
    /\ runlog = <<>>
    /\ runJson = NoRunJson
    /\ writes = 0

CompileNext ==
    \/ CompileAttempt
    \/ CompileGiveUp
    \/ CompileMaterialize
    \/ CompileValidateAgainstProfile

(***************************************************************************)
(* Placeholder processor (compiler_mvp/placeholder_processor.py) and data  *)
(* expander (compiler_mvp/data_driven_compiler.py).                        *)
(* The processor works on the characters of a string, so the strings of    *)
(* this part are sequences of characters; a value that is no string is a   *)
(* sequence of one element that is no character.                           *)
(***************************************************************************)
\* most rows of a dataset
MaxRows == 2

Letters ==
    {"a", "b", "c", "d", "e", "f", "g", "h", "i", "j", "k", "l", "m", "n", "o", "p", "q",
     "r", "s", "t", "u", "v", "w", "x", "y", "z",
     "A", "B", "C", "D", "E", "F", "G", "H", "I", "J", "K", "L", "M", "N", "O", "P", "Q",
     "R", "S", "T", "U", "V", "W", "X", "Y", "Z"}
DigitChars == <<"0", "1", "2", "3", "4", "5", "6", "7", "8", "9">>
Digits == {DigitChars[i] : i \in DOMAIN DigitChars}

\* a key that a dict does not hold, and JSON's null
Absent == <<"<absent>">>
JsonNull == <<"<null>">>

\* int() of one digit and of a string of digits
DigitValue(c) == (CHOOSE i \in DOMAIN DigitChars : DigitChars[i] = c) - 1

RECURSIVE ToInt(_)
ToInt(digits) ==
    IF digits = <<>> THEN 0
    ELSE 10 * ToInt(SubSeq(digits, 1, Len(digits) - 1)) + DigitValue(digits[Len(digits)])

\* str() of a natural number
RECURSIVE IntToStr(_)
IntToStr(n) ==
    IF n < 10 THEN <<DigitChars[n + 1]>>
    ELSE IntToStr(n \div 10) \o <<DigitChars[(n % 10) + 1]>>

\* the number unpadded
Pad3Mut(n) == IntToStr(n)

\* the format specification :03d
Pad3(n) ==
    LET digits == IntToStr(n)
    IN IF Len(digits) >= 3 THEN digits
       ELSE [i \in 1..(3 - Len(digits)) |-> "0"] \o digits

\* the end of the longest run of characters of S that starts at text[i]
\* (i - 1 when text[i] is not in S)
RECURSIVE RunEnd(_, _, _)
RunEnd(text, i, S) ==
    IF i <= Len(text) /\ text[i] \in S THEN RunEnd(text, i + 1, S) ELSE i - 1

NoMultiplier == -1

\* models.py lines 84-95
PlaceholderMatch(placeholder, field_name, multiplier, is_gender_translation) ==
    [placeholder |-> placeholder, field_name |-> field_name, multiplier |-> multiplier,
     is_gender_translation |-> is_gender_translation]

\* line 9: PLACEHOLDER_PATTERN matched at text[i]; last = 0 when it does not
\* match there.  The name and the digits are greedy, the multiplier is taken
\* when a digit follows the star.
MatchAt(text, i) ==
    IF /\ i + 2 <= Len(text)
       /\ text[i] = "s"
       /\ text[i + 1] = "_"
       /\ text[i + 2] \in Letters \cup {"_"}
    THEN LET name_end == RunEnd(text, i + 3, Letters \cup Digits \cup {"_"})
             has_multiplier == /\ name_end + 2 <= Len(text)
                               /\ text[name_end + 1] = "*"
                               /\ text[name_end + 2] \in Digits
             last == IF has_multiplier THEN RunEnd(text, name_end + 2, Digits) ELSE name_end
             field_name == SubSeq(text, i + 2, name_end)
         IN [last |-> last,
             match |-> PlaceholderMatch(
                 SubSeq(text, i, last), field_name,
                 IF has_multiplier THEN ToInt(SubSeq(text, name_end + 2, last))
                 ELSE NoMultiplier,
                 field_name = <<"g", "e", "n", "d", "e", "r">>)]
    ELSE [last |-> 0, match |-> PlaceholderMatch(<<>>, <<>>, NoMultiplier, FALSE)]

\* lines 21-50: finditer
RECURSIVE FindFrom(_, _)
FindFrom(text, i) ==
    IF i > Len(text) THEN <<>>
    ELSE LET m == MatchAt(text, i)
         IN IF m.last = 0 THEN FindFrom(text, i + 1)
            ELSE <<m.match>> \o FindFrom(text, m.last + 1)

FindAllPlaceholders(text) == FindFrom(text, 1)

\* str.replace(old, new)
RECURSIVE StrReplace(_, _, _)
StrReplace(text, old, new) ==
    IF Len(text) < Len(old) \/ old = <<>> THEN text
    ELSE IF SubSeq(text, 1, Len(old)) = old
    THEN new \o StrReplace(SubSeq(text, Len(old) + 1, Len(text)), old, new)
    ELSE <<text[1]>> \o StrReplace(Tail(text), old, new)

\* what a call gives: a value, or the exception it raises
Returned(value) == [outcome |-> "ok", value |-> value]
Raised(exception) == [outcome |-> exception, value |-> <<>>]

\* lines 11-15 and 69-84; a Chinese character is written by its code point
TranslateGender(value) ==
    CASE value = <<"m">>           -> Returned(<<"U+7537">>)
      [] value = <<"f">>           -> Returned(<<"U+5973">>)
      [] value = <<"m", ",", "f">> -> Returned(<<"U+901A", "U+7528">>)
      [] OTHER                     -> Raised("ValueError")

\* float(): the numerals of the model are digits, digits with one decimal
\* that is 0 or 5, inf and nan; the number is kept in tenths
ParseFloat(base_value) ==
    LET n == Len(base_value)
        all_digits(s) == s # <<>> /\ \A i \in DOMAIN s : s[i] \in Digits
    IN IF all_digits(base_value)
       THEN [kind |-> "finite", tenths |-> 10 * ToInt(base_value)]
       ELSE IF /\ n >= 3
               /\ base_value[n - 1] = "."
               /\ base_value[n] \in {"0", "5"}
               /\ all_digits(SubSeq(base_value, 1, n - 2))
       THEN [kind |-> "finite",
             tenths |-> 10 * ToInt(SubSeq(base_value, 1, n - 2)) + DigitValue(base_value[n])]
       ELSE IF base_value = <<"i", "n", "f">> THEN [kind |-> "inf", tenths |-> 0]
       ELSE IF base_value = <<"n", "a", "n">> THEN [kind |-> "nan", tenths |-> 0]
       ELSE [kind |-> "ValueError", tenths |-> 0]

\* lines 86-107: int(product) raises ValueError on nan and OverflowError on
\* inf; only ValueError is caught
ApplyExpression(base_value, multiplier) ==
    LET num == ParseFloat(base_value)
        product == num.tenths * multiplier
    IN CASE num.kind = "ValueError" -> Raised("ValueError")
         [] num.kind = "nan" -> Raised("ValueError")
         [] num.kind = "inf" ->
                IF multiplier = 0 THEN Raised("ValueError") ELSE Raised("OverflowError")
         [] OTHER ->
                IF product % 10 = 0 THEN Returned(IntToStr(product \div 10))
                ELSE Returned(IntToStr(product \div 10) \o <<".">> \o IntToStr(product % 10))

\* models.py lines 98-106
ReplacementError(error_type, placeholder, field_name, data_index) ==
    [error_type |-> error_type, placeholder |-> placeholder, field_name |-> field_name,
     data_index |-> data_index]

\* what get_replacement_value gives: the replacement (Absent: None), the
\* errors it appends to stats.errors, the exception that escapes it
Replacement(value, errors, exception) ==
    [value |-> value, errors |-> errors, exception |-> exception]

\* the candidates tried in the other order
LookupFieldMut(field_name, data) ==
    IF (<<"s", "_">> \o field_name) \in DOMAIN data
    THEN data[<<"s", "_">> \o field_name]
    ELSE IF field_name \in DOMAIN data THEN data[field_name]
    ELSE JsonNull

\* lines 127-150: the first candidate that is a key of the row
LookupField(field_name, data) ==
    IF field_name \in DOMAIN data THEN data[field_name]
    ELSE IF (<<"s", "_">> \o field_name) \in DOMAIN data
    THEN data[<<"s", "_">> \o field_name]
    ELSE JsonNull

\* lines 109-184
GetReplacementValue(placeholder, data, data_index) ==
    LET field_value == LookupField(placeholder.field_name, data)
        error(error_type) == <<ReplacementError(error_type, placeholder.placeholder,
                                                placeholder.field_name, data_index)>>
    IN IF field_value = JsonNull
       THEN Replacement(Absent, error("missing_field"), None)
       ELSE IF placeholder.is_gender_translation
       THEN LET translated == TranslateGender(field_value)
            IN IF translated.outcome = "ok" THEN Replacement(translated.value, <<>>, None)
               ELSE Replacement(Absent, error("translation_error"), None)
       ELSE IF placeholder.multiplier # NoMultiplier
       THEN LET applied == ApplyExpression(field_value, placeholder.multiplier)
            IN CASE applied.outcome = "ok" -> Replacement(applied.value, <<>>, None)
                 [] applied.outcome = "ValueError" ->
                        Replacement(Absent, error("expression_error"), None)
                 [] OTHER -> Replacement(Absent, <<>>, applied.outcome)
       ELSE Replacement(field_value, <<>>, None)

\* what the walker gives for a string or a plan: the processed object, the
\* success flag, the errors appended to stats.errors, the exception that
\* escapes it (None: none)
Walked(obj, success, errors, exception) ==
    [obj |-> obj, success |-> success, errors |-> errors, exception |-> exception]

\* lines 215-221: the body of the loop, for one placeholder and what
\* get_replacement_value gave for it
Substitute(sofar, placeholder, replacement) ==
    IF replacement.exception # None
    THEN Walked(sofar.obj, sofar.success, sofar.errors, replacement.exception)
    ELSE IF replacement.value = Absent
    THEN Walked(sofar.obj, FALSE, sofar.errors \o replacement.errors, None)
    ELSE Walked(StrReplace(sofar.obj, placeholder.placeholder, replacement.value),
                sofar.success, sofar.errors, None)

\* lines 214-221: the loop over the placeholders found in the text
RECURSIVE ReplaceEach(_, _, _, _, _)
ReplaceEach(placeholders, k, data, data_index, sofar) ==
    IF k > Len(placeholders) \/ sofar.exception # None THEN sofar
    ELSE ReplaceEach(placeholders, k + 1, data, data_index,
                     Substitute(sofar, placeholders[k],
                                GetReplacementValue(placeholders[k], data, data_index)))

\* lines 186-236
\* lines 223-236: the second scan, over the text after the replacements
Rescan(replaced, remaining, data_index) ==
    Walked(replaced.obj, replaced.success /\ remaining = <<>>,
           replaced.errors \o [k \in DOMAIN remaining |->
                                  ReplacementError("unreplaced_placeholder",
                                                   remaining[k].placeholder,
                                                   remaining[k].field_name, data_index)],
           None)

\* lines 208-236, after the first scan
ReplaceFound(placeholders, replaced, data_index) ==
    IF placeholders = <<>> \/ replaced.exception # None THEN replaced
    ELSE Rescan(replaced, FindAllPlaceholders(replaced.obj), data_index)

\* lines 186-236
ReplacePlaceholdersInText(text, data, data_index) ==
    ReplaceFound(FindAllPlaceholders(text),
                 ReplaceEach(FindAllPlaceholders(text), 1, data, data_index,
                             Walked(text, TRUE, <<>>, None)),
                 data_index)

\* an ActionPlan as the walker sees it: meta.testId (Absent: no such key),
\* meta.baseUrl, meta.dataSource, and the steps with their string fields
ActionPlan(testId, baseUrl, dataSource, steps) ==
    [meta |-> [testId |-> testId, baseUrl |-> baseUrl, dataSource |-> dataSource],
     steps |-> steps]

\* the strings of a plan in the order in which the walker visits them
RECURSIVE StepLeaves(_)
StepLeaves(steps) ==
    IF steps = <<>> THEN <<>>
    ELSE <<steps[1].t, steps[1].selector, steps[1].value>> \o StepLeaves(Tail(steps))

Leaves(a_plan) == <<a_plan.meta.testId, a_plan.meta.baseUrl>> \o StepLeaves(a_plan.steps)

\* the plan with its strings replaced by the given ones
WithLeaves(a_plan, leaves) ==
    ActionPlan(leaves[1], leaves[2], a_plan.meta.dataSource,
               [k \in DOMAIN a_plan.steps |->
                   [t |-> leaves[3 * k], selector |-> leaves[3 * k + 1],
                    value |-> leaves[3 * k + 2]]])

\* lines 256-275: the loops over the values of a dict and the items of a list
\* lines 259-261 and 268-270: result[key] = processed; all_success and success
Collect(sofar, walked) ==
    Walked(Append(sofar.obj, walked.obj), sofar.success /\ walked.success,
           sofar.errors \o walked.errors, walked.exception)

RECURSIVE WalkLeaves(_, _, _, _, _)
WalkLeaves(leaves, k, data, data_index, sofar) ==
    IF k > Len(leaves) \/ sofar.exception # None THEN sofar
    ELSE WalkLeaves(leaves, k + 1, data, data_index,
                    Collect(sofar, IF leaves[k] = Absent THEN Walked(Absent, TRUE, <<>>, None)
                                   ELSE ReplacePlaceholdersInText(leaves[k], data, data_index)))

\* the plan that the walker returns, from the strings it processed
Rebuild(a_plan, walked) ==
    IF walked.exception # None THEN Walked(a_plan, FALSE, walked.errors, walked.exception)
    ELSE Walked(WithLeaves(a_plan, walked.obj), walked.success, walked.errors, None)

\* lines 238-277, on a plan
ReplacePlaceholdersInDict(a_plan, data, data_index) ==
    Rebuild(a_plan, WalkLeaves(Leaves(a_plan), 1, data, data_index, Walked(<<>>, TRUE, <<>>, None)))

DatasetPrefix == <<"d", "a", "t", "a", "s", "e", "t", "#">>

\* data_driven_compiler.py lines 148-167
UpdateMetaInfo(a_plan, test_id_base, data_index) ==
    LET test_id == IF a_plan.meta.testId = Absent THEN test_id_base ELSE a_plan.meta.testId
    IN ActionPlan(test_id \o <<"_">> \o Pad3(data_index + 1), a_plan.meta.baseUrl,
                  DatasetPrefix \o IntToStr(data_index), a_plan.steps)

\* data_driven_compiler.py lines 117-146; replaced is what the walker gave
SingleCase(walked, test_id_base, data_index) ==
    [replaced |-> walked.obj,
     case_plan |-> IF walked.success
                   THEN <<UpdateMetaInfo(walked.obj, test_id_base, data_index)>>
                   ELSE <<>>,
     success |-> walked.success,
     errors |-> walked.errors,
     exception |-> walked.exception]

CompileSingleCase(template, test_id_base, data_index, data) ==
    SingleCase(ReplacePlaceholdersInDict(template, data, data_index), test_id_base, data_index)

\* llm_cli.py, _compile_with_dataset: template_plan.get("meta", {}).get("testId", "TEST")
TestIdBase(template) ==
    IF template.meta.testId = Absent THEN <<"T", "E", "S", "T">> ELSE template.meta.testId

\* models.py lines 109-123
ReplacementStats(total_items, successful_items, failed_items, errors) ==
    [total_items |-> total_items, successful_items |-> successful_items,
     failed_items |-> failed_items, errors |-> errors]

\* the strings, templates and rows the expander is run on
TxtPlain == <<"o", "k">>
TxtName == <<"s", "_", "n">>
TxtPrefix == <<"s", "_", "n", " ", "s", "_", "n", "_", "x">>
TxtExprLast == <<"s", "_", "q", "+", "s", "_", "q", "*", "2">>
TxtExprFirst == <<"s", "_", "q", "*", "2", "+", "s", "_", "q">>
TxtGender == <<"s", "_", "g", "e", "n", "d", "e", "r">>
Texts == {TxtPlain, TxtName, TxtPrefix, TxtExprLast, TxtExprFirst, TxtGender}

TestIds == {Absent, <<"T">>, <<"T", "-", "s", "_", "n">>}

FillStep(value) == [t |-> <<"f", "i", "l", "l">>, selector |-> <<"#", "a">>, value |-> value]

Templates ==
    {ActionPlan(testId, <<"u">>, Absent, <<FillStep(text)>>) : testId \in TestIds, text \in Texts}

RowFull ==
    (<<"n">> :> <<"A", "l">>) @@ (<<"n", "_", "x">> :> <<"L", "e", "e">>)
        @@ (<<"q">> :> <<"5">>) @@ (<<"g", "e", "n", "d", "e", "r">> :> <<"m">>)
RowEndsInS ==
    (<<"n">> :> <<"A", "s">>) @@ (<<"n", "_", "x">> :> <<"L", "e", "e">>)
        @@ (<<"q">> :> <<"1", ".", "5">>) @@ (<<"g", "e", "n", "d", "e", "r">> :> <<"f">>)
RowPrefixedKeys ==
    (<<"s", "_", "n">> :> <<"B", "o">>) @@ (<<"q">> :> <<"a", "b">>)
        @@ (<<"g", "e", "n", "d", "e", "r">> :> <<"x">>)
RowNull ==
    (<<"n">> :> JsonNull) @@ (<<"s", "_", "n">> :> <<"B", "o">>) @@ (<<"q">> :> <<"5">>)
RowBothKeys ==
    (<<"n">> :> <<"A", "l">>) @@ (<<"s", "_", "n">> :> <<"Z", "e", "d">>)
        @@ (<<"n", "_", "x">> :> <<"L", "e", "e">>) @@ (<<"q">> :> <<"i", "n", "f">>)
        @@ (<<"g", "e", "n", "d", "e", "r">> :> <<"m", ",", "f">>)
RowEmpty == <<>>
Rows == {RowFull, RowEndsInS, RowPrefixedKeys, RowNull, RowBothKeys, RowEmpty}

Datasets == UNION {[1..n -> Rows] : n \in 0..MaxRows}

ExpandIdle ==
    /\ template_plan = ActionPlan(Absent, <<"u">>, Absent, <<FillStep(TxtPlain)>>)
    /\ dataset = <<>>
    /\ xpc = "idle"
    /\ cases = <<>>
    /\ stats = ReplacementStats(0, 0, 0, <<>>)
    /\ resolved = <<>>

\* compile, lines 79-95: the call with its arguments, up to the loop
ExpandInit ==
    /\ template_plan \in Templates
    /\ dataset \in Datasets
    /\ xpc = "loop"
    /\ cases = <<>>
    /\ stats = ReplacementStats(Len(dataset), 0, 0, <<>>)
    /\ resolved = <<>>

\* compile, lines 97-104: one turn of the loop over dataset.items; the item
\* at position i + 1 has index i (extract_category, lines 39-70)
Turn(single) ==
    IF single.exception # None
    THEN /\ xpc' = "raised"
         /\ stats' = [stats EXCEPT !.errors = @ \o single.errors]
         /\ UNCHANGED <<cases, resolved>>
    ELSE /\ resolved' = Append(resolved, [plan |-> single.replaced, ok |-> single.success])
         /\ cases' = cases \o single.case_plan
         /\ stats' = [stats EXCEPT
                         !.errors = @ \o single.errors,
                         !.successful_items = IF single.success THEN @ + 1 ELSE @,
                         !.failed_items = IF single.success THEN @ ELSE @ + 1]
         /\ xpc' = xpc

ExpandRow ==
    /\ xpc = "loop"
    /\ Len(resolved) < Len(dataset)
    /\ Turn(CompileSingleCase(template_plan, TestIdBase(template_plan), Len(resolved),
                              dataset[Len(resolved) + 1]))
    /\ UNCHANGED <<template_plan, dataset>>
    /\ UNCHANGED <<execVars, batchVars, compVars, mergeVars, cliVars, calVars>>

\* compile, lines 106-107: product.stats = stats; return product
ExpandReturn ==
    /\ xpc = "loop"
    /\ Len(resolved) = Len(dataset)
    /\ xpc' = "returned"
    /\ UNCHANGED <<template_plan, dataset, cases, stats, resolved>>
    /\ UNCHANGED <<execVars, batchVars, compVars, mergeVars, cliVars, calVars>>

ExpandNext == ExpandRow \/ ExpandReturn


(***************************************************************************)
(* Site profile store: merge_page_into_profile                             *)
(* (profile_builder_mvp/profile_merger.py) and the reader of the file,     *)
(* load_site_profile (compiler_mvp/site_profile_loader.py).                *)
(***************************************************************************)
\* most MergePage calls, and the last second of the clock
MaxMerges == 2
MaxClock == 2

\* the clock counts in steps finer than the second
TicksPerSecond == 2

\* line 14: utcnow().strftime("%Y%m%dT%H%M%SZ") keeps the whole seconds; the
\* strings of one width order as their seconds do
NowTs(clock) == clock \div TicksPerSecond

\* a page entry of the profile; history holds the earlier contents
PageEntry(id, version, body, history) ==
    [id |-> id, version |-> version, body |-> body, history |-> history]

\* a profile document; pages_kind tells whether the top-level pages is a
\* list, is missing or is something else
ProfileDoc(version, site, pages_kind, pages) ==
    [version |-> version, site |-> site, pages_kind |-> pages_kind, pages |-> pages]

NoDoc == ProfileDoc(0, None, "missing", <<>>)

\* the file: absent, holding a whole document, truncated to nothing, or
\* holding the head of a document
File(state, doc) == [state |-> state, doc |-> doc]

\* lines 24-37
BuildPageEntry(page, clock) == PageEntry(page.page_id, NowTs(clock), page.body, <<>>)

\* line 79
Snapshot(entry) == [id |-> entry.id, version |-> entry.version, body |-> entry.body]

\* lines 68-72: the first page with the id (0: none)
FindExisting(pages, page_id) ==
    IF \E k \in DOMAIN pages : pages[k].id = page_id
    THEN CHOOSE k \in DOMAIN pages :
            pages[k].id = page_id /\ \A l \in 1..(k - 1) : pages[l].id # page_id
    ELSE 0

\* lines 74-84
MergeEntry(pages, new_entry) ==
    IF FindExisting(pages, new_entry.id) = 0 THEN Append(pages, new_entry)
    ELSE [pages EXCEPT ![FindExisting(pages, new_entry.id)] =
             PageEntry(new_entry.id, new_entry.version, new_entry.body,
                       Append(@.history, Snapshot(@)))]

\* lines 49-59: the profile the call starts from
LoadedProfile(file, clock) ==
    IF file.state = "absent" THEN ProfileDoc(NowTs(clock), None, "list", <<>>)
    ELSE IF file.doc.pages_kind # "list"
    THEN ProfileDoc(file.doc.version, file.doc.site, "list", <<>>)
    ELSE file.doc

\* lines 61-86
MergedProfile(loaded, page, site_name, clock) ==
    ProfileDoc(NowTs(clock),
               IF site_name # None /\ loaded.site = None THEN site_name ELSE loaded.site,
               "list", MergeEntry(loaded.pages, BuildPageEntry(page, clock)))

\* what is known of the last call: its arguments, the file it found, the
\* entry of the page before and after, and how it ended
MergeCall(page_id, dry_run, found, before, after, error, created_new_file) ==
    [page_id |-> page_id, dry_run |-> dry_run, found |-> found, before |-> before,
     after |-> after, error |-> error, created_new_file |-> created_new_file]

NoCall == MergeCall(None, FALSE, File("absent", NoDoc), <<>>, <<>>, None, FALSE)

EntryOf(pages, page_id) ==
    IF FindExisting(pages, page_id) = 0 THEN <<>> ELSE <<pages[FindExisting(pages, page_id)]>>

AnnotatedPages == [page_id : {"home", "cart"}, body : {"A", "B"}]

ProfileFiles ==
    {File("absent", NoDoc),
     File("full", ProfileDoc(0, None, "list", <<PageEntry("home", 0, "A", <<>>)>>)),
     File("full", ProfileDoc(0, "shop", "missing", <<>>)),
     File("full", ProfileDoc(0, None, "not_list", <<>>))}

MergeIdle ==
    /\ profile_file = File("absent", NoDoc)
    /\ now = TicksPerSecond
    /\ mpc = "off"
    /\ merge_call = NoCall
    /\ merges = 0
    /\ observed = File("absent", NoDoc)

MergeInit ==
    /\ profile_file \in ProfileFiles
    /\ now = TicksPerSecond
    /\ mpc = "idle"
    /\ merge_call = NoCall
    /\ merges = 0
    /\ observed = File("absent", NoDoc)

\* lines 49-90 up to the opening of the file: write_text opens the file for
\* writing, which truncates it, before any of the new text is in it
Opened(page, site_name, dry_run, loaded) ==
    /\ merge_call' = MergeCall(page.page_id, dry_run, profile_file,
                               EntryOf(loaded.pages, page.page_id),
                               EntryOf(MergedProfile(loaded, page, site_name, now).pages,
                                       page.page_id),
                               None, profile_file.state = "absent")
    /\ IF dry_run
       THEN /\ UNCHANGED profile_file
            /\ mpc' = "idle"
       ELSE /\ profile_file' = File("empty", MergedProfile(loaded, page, site_name, now))
            /\ mpc' = "writing"

\* merge_page_into_profile; json.loads (line 50) raises on a file that holds
\* no whole document
MergeOpen ==
    /\ mpc = "idle"
    /\ merges < MaxMerges
    /\ merges' = merges + 1
    /\ \E page \in AnnotatedPages, site_name \in {None, "shop"}, dry_run \in BOOLEAN :
          IF profile_file.state \in {"empty", "partial"}
          THEN /\ merge_call' = MergeCall(page.page_id, dry_run, profile_file, <<>>, <<>>,
                                          "JSONDecodeError", FALSE)
               /\ UNCHANGED <<profile_file, mpc>>
          ELSE Opened(page, site_name, dry_run, LoadedProfile(profile_file, now))
    /\ UNCHANGED <<now, observed>>
    /\ UNCHANGED <<execVars, batchVars, compVars, expandVars, cliVars, calVars>>

\* line 90: a part of the text reaches the file
MergeWriteChunk ==
    /\ mpc = "writing"
    /\ profile_file.state = "empty"
    /\ profile_file' = File("partial", profile_file.doc)
    /\ UNCHANGED <<now, mpc, merge_call, merges, observed>>
    /\ UNCHANGED <<execVars, batchVars, compVars, expandVars, cliVars, calVars>>

\* line 90: the rest of the text reaches the file and the file is closed;
\* lines 92-97
MergeClose ==
    /\ mpc = "writing"
    /\ profile_file' = File("full", profile_file.doc)
    /\ mpc' = "idle"
    /\ UNCHANGED <<now, merge_call, merges, observed>>
    /\ UNCHANGED <<execVars, batchVars, compVars, expandVars, cliVars, calVars>>

\* the process dies while it writes; the next call is one of a new process
MergeCrash ==
    /\ mpc = "writing"
    /\ mpc' = "idle"
    /\ merge_call' = [merge_call EXCEPT !.error = "crashed"]
    /\ UNCHANGED <<profile_file, now, merges, observed>>
    /\ UNCHANGED <<execVars, batchVars, compVars, expandVars, cliVars, calVars>>

\* time passes
Tick ==
    /\ mpc # "off"
    /\ now < MaxClock * TicksPerSecond + 1
    /\ now' = now + 1
    /\ UNCHANGED <<profile_file, mpc, merge_call, merges, observed>>
    /\ UNCHANGED <<execVars, batchVars, compVars, expandVars, cliVars, calVars>>

\* site_profile_loader.py line 12: a compile reads the file, at any moment
LoadSiteProfile ==
    /\ mpc # "off"
    /\ observed' = profile_file
    /\ observed' # observed
    /\ UNCHANGED <<profile_file, now, mpc, merge_call, merges>>
    /\ UNCHANGED <<execVars, batchVars, compVars, expandVars, cliVars, calVars>>

MergeNext ==
    \/ MergeOpen
    \/ MergeWriteChunk
    \/ MergeClose
    \/ MergeCrash
    \/ Tick
    \/ LoadSiteProfile


(***************************************************************************)
(* The run CLI (executor_mvp/cli.py): main and _run_batch_mode around      *)
(* Executor.run and BatchExecutor.run_batch.  An exception that leaves     *)
(* main ends the process with exit code 1.                                 *)
(***************************************************************************)
\* cli.py line 156
SingleExitCode(run) == IF run.status = "passed" THEN 0 ELSE 1

\* the batch exit code that looks at the failed cases only
BatchExitCodeMut(b) == IF b.failed_cases = 0 THEN 0 ELSE 1

\* cli.py line 210
BatchExitCode(b) == IF b.passed_cases = b.total_cases THEN 0 ELSE 1

CliIdle ==
    /\ cli_mode = "off"
    /\ exit_code = <<>>

\* main, lines 81-97: the arguments choose the mode
CliInit ==
    /\ cli_mode \in {"single", "batch"}
    /\ exit_code = <<>>
    /\ IF cli_mode = "single" THEN ExecInit /\ BatchIdle ELSE BatchInit

\* main, line 103: load_plan_from_directory raises (no such case, no valid
\* plan) and the exception leaves main
CliLoadPlanFails ==
    /\ cli_mode = "single"
    /\ exit_code = <<>>
    /\ epc = "start"
    /\ epc' = "idle"
    /\ exit_code' = <<1>>
    /\ UNCHANGED <<plan, screenshots, result, runlog, runJson, writes, cli_mode>>
    /\ UNCHANGED <<batchVars, compVars, expandVars, mergeVars, calVars>>

\* main, lines 121-156: Executor.run returned or raised; the report is
\* written (or its writing raises) and main returns
CliSingleExit ==
    /\ cli_mode = "single"
    /\ exit_code = <<>>
    /\ epc \in {"done", "raised"}
    /\ IF epc = "raised"
       THEN /\ exit_code' = <<1>>
            /\ UNCHANGED reportMd
       ELSE \E written \in BOOLEAN :
               IF written
               THEN /\ reportMd' = GenerateExecutionReport(<<result>>)
                    /\ exit_code' = <<SingleExitCode(result)>>
               ELSE /\ reportMd' = [written |-> "truncated"]
                    /\ exit_code' = <<1>>
    /\ UNCHANGED <<hasCasesDir, casesDir, case_count, run_files, bpc, case_items, batch, attempted,
                   summaryJson, cli_mode>>
    /\ UNCHANGED <<execVars, compVars, expandVars, mergeVars, calVars>>

\* _run_batch_mode, lines 176-210: run_batch returned or raised
CliBatchExit ==
    /\ cli_mode = "batch"
    /\ exit_code = <<>>
    /\ bpc \in {"returned", "raised"}
    /\ exit_code' = IF bpc = "raised" THEN <<1>> ELSE <<BatchExitCode(batch)>>
    /\ UNCHANGED cli_mode
    /\ UNCHANGED <<execVars, batchVars, compVars, expandVars, mergeVars, calVars>>

CliNext ==
    \/ BatchNext
    \/ CliLoadPlanFails
    \/ CliSingleExit
    \/ CliBatchExit


\* ---------------------------------------------------------------------------
\* calibration_web_mvp: the DOM ids that a snapshot and a session's SyncDOM
\* inject (calibration_snapshot._extract_dom_with_ids and
\* CalibrationSession.extract_dom_tree)
\*
\* The page is the sequence of its elements in document order, each with its
\* depth below <body> (0) and its data-dom-id attribute. No element of the
\* modelled pages has a tag of SKIP_TAGS.
\* ---------------------------------------------------------------------------

\* the largest page
MaxElements == 3

\* the deepest element
MaxDomDepth == 2

\* the extractions made on one page
MaxDomCalls == 3

\* an element without the attribute data-dom-id
NoAttr == <<>>

\* `dom-${n}`
DomId(n) == <<n>>

Element(depth, dom_id) == [depth |-> depth, dom_id |-> dom_id]

\* a sequence of depths is the document order of a tree rooted in <body>
IsDocument(page) ==
    /\ Len(page) >= 1
    /\ page[1].depth = 0
    /\ \A i \in 2..Len(page) :
          /\ page[i].depth >= 1
          /\ page[i].depth <= page[i - 1].depth + 1

\* the pages as the browser loads them: no element has a data-dom-id yet
LoadedPages ==
    { p \in UNION { [1..n -> {Element(dp, NoAttr) : dp \in 0..MaxDomDepth}] :
                      n \in 1..MaxElements } : IsDocument(p) }

\* calibration_session.py lines 253-256: an element that has the attribute
\* keeps it, any other gets the next value of the counter;
\* calibration_snapshot.py lines 117-118: every visited element gets the next
\* value of the counter
NodeDomId(el, domIdCounter, keeps) ==
    IF keeps /\ el.dom_id # NoAttr THEN el.dom_id ELSE DomId(domIdCounter + 1)

\* the counter after the element: `++domIdCounter` is evaluated only when
\* the left operand of || is empty
CounterAfter(el, domIdCounter, keeps) ==
    IF keeps /\ el.dom_id # NoAttr THEN domIdCounter ELSE domIdCounter + 1

\* snapshotNode of both scripts, over the document order: an element is
\* visited unless count reached MAX_NODES or it lies deeper than MAX_DEPTH
\* (its descendants lie deeper still, and once count reached MAX_NODES no
\* later element is visited). The visited element carries the id in the
\* page and in the emitted entry.
RECURSIVE SnapshotNode(_, _, _, _, _, _, _)
SnapshotNode(page, i, count, domIdCounter, entries, limits, keeps) ==
    IF i > Len(page)
    THEN [page |-> page, tree |-> entries]
    ELSE IF count >= limits.max_nodes \/ page[i].depth > limits.max_depth
    THEN SnapshotNode(page, i + 1, count, domIdCounter, entries, limits, keeps)
    ELSE SnapshotNode(
            [page EXCEPT ![i].dom_id = NodeDomId(page[i], domIdCounter, keeps)],
            i + 1, count + 1, CounterAfter(page[i], domIdCounter, keeps),
            Append(entries, [el |-> i, depth |-> page[i].depth,
                             dom_id |-> NodeDomId(page[i], domIdCounter, keeps)]),
            limits, keeps)

Limits(max_depth, max_nodes) == [max_depth |-> max_depth, max_nodes |-> max_nodes]

\* CalibrationSession.extract_dom_tree: count and domIdCounter start at 0 in
\* every call
ExtractDomTree(page, max_depth, max_nodes) ==
    SnapshotNode(page, 1, 0, 0, <<>>, Limits(max_depth, max_nodes), TRUE)

\* _sanitize_dom_snapshot: the entries after the first max_nodes, in
\* document order, are dropped
SanitizeDomSnapshot(entries, max_nodes) ==
    SubSeq(entries, 1, IF Len(entries) < max_nodes THEN Len(entries) ELSE max_nodes)

Sanitized(extracted, max_nodes) ==
    [page |-> extracted.page, tree |-> SanitizeDomSnapshot(extracted.tree, max_nodes)]

\* _extract_dom_with_ids
ExtractDomWithIds(page, max_depth, max_nodes) ==
    Sanitized(SnapshotNode(page, 1, 0, 0, <<>>, Limits(max_depth, max_nodes), FALSE),
              max_nodes)

\* the limits a request may carry
DepthLimits == 0..MaxDomDepth
NodeLimits == 1..MaxElements

DomIdle ==
    /\ page_dom = <<>>
    /\ dom_tree = <<>>
    /\ dom_op = "off"
    /\ dom_calls = 0

\* a page was loaded, by create_snapshot's browser or by a session's
DomInit ==
    /\ page_dom \in LoadedPages
    /\ dom_tree = <<>>
    /\ dom_op = "loaded"
    /\ dom_calls = 0

Emit(extracted, op) ==
    /\ page_dom' = extracted.page
    /\ dom_tree' = extracted.tree
    /\ dom_op' = op
    /\ dom_calls' = dom_calls + 1
    /\ UNCHANGED <<execVars, batchVars, compVars, expandVars, mergeVars, cliVars, snapVars, sessVars>>

\* create_snapshot, line 326, on the page its own browser has just loaded
SnapshotDom(max_depth, max_nodes) ==
    /\ dom_op = "loaded"
    /\ Emit(ExtractDomWithIds(page_dom, max_depth, max_nodes), "snapshot")

\* dom-sync on a session (calibrations_api.py line 129); when page.evaluate
\* raises the tree is {}
SyncDOM(max_depth, max_nodes) ==
    /\ dom_op \in {"loaded", "sync", "added"}
    /\ dom_calls < MaxDomCalls
    /\ \E evaluated \in BOOLEAN :
          IF evaluated
          THEN Emit(ExtractDomTree(page_dom, max_depth, max_nodes), "sync")
          ELSE Emit([page |-> page_dom, tree |-> <<>>], "sync")

InsertAt(page, p, el) == SubSeq(page, 1, p - 1) \o <<el>> \o SubSeq(page, p, Len(page))

\* the page of a session adds an element (a script of the page, or the
\* person driving the headed browser)
AddElement ==
    /\ dom_op \in {"loaded", "sync"}
    /\ Len(page_dom) < MaxElements
    /\ \E p \in 2..(Len(page_dom) + 1), dp \in 1..MaxDomDepth :
          /\ IsDocument(InsertAt(page_dom, p, Element(dp, NoAttr)))
          /\ page_dom' = InsertAt(page_dom, p, Element(dp, NoAttr))
    /\ dom_op' = "added"
    /\ UNCHANGED <<dom_tree, dom_calls>>
    /\ UNCHANGED <<execVars, batchVars, compVars, expandVars, mergeVars, cliVars, snapVars, sessVars>>

DomNext ==
    \/ \E max_depth \in DepthLimits, max_nodes \in NodeLimits :
          SnapshotDom(max_depth, max_nodes)
    \/ \E max_depth \in DepthLimits, max_nodes \in NodeLimits :
          SyncDOM(max_depth, max_nodes)
    \/ AddElement


\* ---------------------------------------------------------------------------
\* calibration_web_mvp: SnapshotManager.create_snapshot and the directory of
\* each snapshot under the snapshots root
\* ---------------------------------------------------------------------------

\* the create_snapshot calls of one run
MaxSnapshots == 3

\* the files of a snapshot, in the order create_snapshot writes them
SnapshotFiles ==
    <<"metadata.json", "page.html", "dom_tree.json", "controls.json", "a11y_tree.json">>

NoDir == [exists |-> FALSE, files |-> <<>>]
EmptyDir == [exists |-> TRUE, files |-> <<>>]

\* what a Playwright call or a file write of create_snapshot does: it
\* returns, raises playwright's TimeoutError, or raises another exception
Outcomes == {"ok", "timeout", "error"}

SnapIdle ==
    /\ snapshots_dir = [i \in 1..MaxSnapshots |-> NoDir]
    /\ snapshot_id = 0
    /\ wait_for = FALSE
    /\ snap_pc = "off"
    /\ snap_result = "none"

\* SnapshotManager.__init__: the snapshots root exists, no call was made
SnapInit ==
    /\ snapshots_dir = [i \in 1..MaxSnapshots |-> NoDir]
    /\ snapshot_id = 0
    /\ wait_for = FALSE
    /\ snap_pc = "idle"
    /\ snap_result = "none"

\* lines 308-310: a fresh uuid4 names the snapshot and its directory is made
CreateSnapshot(with_wait_for) ==
    /\ snap_pc = "idle"
    /\ snapshot_id < MaxSnapshots
    /\ snapshot_id' = snapshot_id + 1
    /\ snapshots_dir' = [snapshots_dir EXCEPT ![snapshot_id + 1] = EmptyDir]
    /\ wait_for' = with_wait_for
    /\ snap_pc' = "goto"
    /\ snap_result' = "none"
    /\ UNCHANGED <<execVars, batchVars, compVars, expandVars, mergeVars, cliVars, domVars, sessVars>>

\* lines 377-386: the except clauses of create_snapshot. Playwright's
\* TimeoutError is caught by the first clause, which raises RuntimeError;
\* any other exception by the second, which removes the directory first.
SnapshotRaises(outcome) ==
    /\ snapshots_dir' =
          IF outcome = "timeout"
          THEN snapshots_dir
          ELSE [snapshots_dir EXCEPT ![snapshot_id] = NoDir]
    /\ snap_result' = IF outcome = "timeout" THEN "timeout_error" ELSE "error"
    /\ snap_pc' = "idle"
    /\ UNCHANGED <<snapshot_id, wait_for>>
    /\ UNCHANGED <<execVars, batchVars, compVars, expandVars, mergeVars, cliVars, domVars, sessVars>>

SnapshotGoesOn(pc) ==
    /\ snap_pc' = pc
    /\ UNCHANGED <<snapshots_dir, snapshot_id, wait_for, snap_result>>
    /\ UNCHANGED <<execVars, batchVars, compVars, expandVars, mergeVars, cliVars, domVars, sessVars>>

\* lines 315-317: the browser is launched and page.goto(url, timeout) runs
SnapshotGoto(outcome) ==
    /\ snap_pc = "goto"
    /\ IF outcome = "ok"
       THEN SnapshotGoesOn(IF wait_for THEN "wait_for" ELSE "extract")
       ELSE SnapshotRaises(outcome)

\* lines 319-320: page.wait_for_selector(wait_for, timeout)
SnapshotWaitFor(outcome) ==
    /\ snap_pc = "wait_for"
    /\ IF outcome = "ok" THEN SnapshotGoesOn("extract") ELSE SnapshotRaises(outcome)

\* lines 322-333: title, content, the DOM tree and the accessibility tree
\* are read from the page
SnapshotExtract(outcome) ==
    /\ snap_pc = "extract"
    /\ IF outcome = "ok" THEN SnapshotGoesOn("write") ELSE SnapshotRaises(outcome)

\* lines 351-363: the next file of the snapshot is written, or its write
\* raises OSError
SnapshotWrite(written) ==
    /\ snap_pc = "write"
    /\ Len(snapshots_dir[snapshot_id].files) < Len(SnapshotFiles)
    /\ IF written
       THEN /\ snapshots_dir' =
                  [snapshots_dir EXCEPT ![snapshot_id].files =
                      Append(@, SnapshotFiles[Len(@) + 1])]
            /\ UNCHANGED <<snapshot_id, wait_for, snap_pc, snap_result>>
            /\ UNCHANGED <<execVars, batchVars, compVars, expandVars, mergeVars,
                           cliVars, domVars, sessVars>>
       ELSE SnapshotRaises("error")

\* lines 365-375: every file is written and the snapshot is returned
SnapshotReturn ==
    /\ snap_pc = "write"
    /\ snapshots_dir[snapshot_id].files = SnapshotFiles
    /\ snap_pc' = "idle"
    /\ snap_result' = "returned"
    /\ UNCHANGED <<snapshots_dir, snapshot_id, wait_for>>
    /\ UNCHANGED <<execVars, batchVars, compVars, expandVars, mergeVars, cliVars, domVars, sessVars>>

SnapNext ==
    \/ \E with_wait_for \in BOOLEAN : CreateSnapshot(with_wait_for)
    \/ \E outcome \in Outcomes : SnapshotGoto(outcome)
    \/ \E outcome \in Outcomes : SnapshotWaitFor(outcome)
    \/ \E outcome \in {"ok", "error"} : SnapshotExtract(outcome)
    \/ \E written \in BOOLEAN : SnapshotWrite(written)
    \/ SnapshotReturn

\* ---------------------------------------------------------------------------
\* calibration_web_mvp: SessionManager and the routes that reach it. Flask
\* serves every request on a thread of its own (app.run, threaded by
\* default) and the manager takes no lock, so the handlers interleave
\* wherever one of them waits for the browser.
\* ---------------------------------------------------------------------------

\* SessionManager.max_sessions (5 in the code), scaled down
max_sessions == 2

\* SessionManager.session_timeout (3600 s in the code), in ticks of the clock
session_timeout == 1

\* the requests served at the same time
MaxHandlers == 3

\* the session ids uuid4 hands out in one run
MaxCreated == 3

\* the last tick of the clock
MaxSessClock == 3

Handlers == 1..MaxHandlers
SessionIds == 1..MaxCreated

\* a handler thread that serves no create request
Resting == [pc |-> "idle", sid |-> 0]

SessInit ==
    /\ sessions = {}
    /\ last_accessed = [s \in SessionIds |-> 0]
    /\ browsers = {}
    /\ handlers = [h \in Handlers |-> Resting]
    /\ sess_now = 0
    /\ created = 0
    /\ rejected = FALSE

SessIdle == SessInit

\* cleanup_expired_sessions, lines 492-495: the age test is strict, and a
\* session whose browser is gone (is_alive) counts as expired
Expired(s) ==
    \/ sess_now - last_accessed[s] > session_timeout
    \/ s \notin browsers

ExpiredSessions == { s \in sessions : Expired(s) }

SessFrame == UNCHANGED <<execVars, batchVars, compVars, expandVars, mergeVars, cliVars,
                         domVars, snapVars>>

\* cleanup_expired_sessions: close_session pops every expired session from
\* the pool and cleans its browser up
CleanupExpiredSessions ==
    /\ sessions' = sessions \ ExpiredSessions
    /\ browsers' = browsers \ ExpiredSessions

\* POST /calibrations/sessions, line 48: the route cleans the expired
\* sessions up before it creates one
CreateSessionRequest(h) ==
    /\ handlers[h].pc = "idle"
    /\ created + Cardinality({ g \in Handlers : handlers[g].pc = "cleaned" }) < MaxCreated
    /\ CleanupExpiredSessions
    /\ handlers' = [handlers EXCEPT ![h].pc = "cleaned"]
    /\ UNCHANGED <<last_accessed, sess_now, created, rejected>>
    /\ SessFrame

\* create_session, lines 451-458: the limit is tested against the pool; a
\* request over the limit raises RuntimeError (429), any other gets a fresh
\* uuid4 and a CalibrationSession whose last_accessed is now
CreateSessionCheck(h) ==
    /\ handlers[h].pc = "cleaned"
    /\ IF Cardinality(sessions) >= max_sessions
       THEN /\ handlers' = [handlers EXCEPT ![h] = Resting]
            /\ rejected' = TRUE
            /\ UNCHANGED <<last_accessed, created>>
       ELSE /\ handlers' = [handlers EXCEPT ![h] = [pc |-> "starting", sid |-> created + 1]]
            /\ created' = created + 1
            /\ last_accessed' = [last_accessed EXCEPT ![created + 1] = sess_now]
            /\ UNCHANGED rejected
    /\ UNCHANGED <<sessions, browsers, sess_now>>
    /\ SessFrame

\* start_browser, lines 42-48: the headed browser is launched, or the launch
\* raises (cleanup, RuntimeError)
StartBrowser(h, launched) ==
    /\ handlers[h].pc = "starting"
    /\ IF launched
       THEN /\ browsers' = browsers \cup {handlers[h].sid}
            /\ handlers' = [handlers EXCEPT ![h].pc = "loading"]
       ELSE /\ handlers' = [handlers EXCEPT ![h] = Resting]
            /\ UNCHANGED browsers
    /\ UNCHANGED <<sessions, last_accessed, sess_now, created, rejected>>
    /\ SessFrame

\* start_browser, lines 51-65, and create_session, lines 464-467: the page
\* loads and the session enters the pool, or the load fails, the browser
\* is cleaned up and RuntimeError leaves create_session
CreateSessionFinish(h, loaded) ==
    /\ handlers[h].pc = "loading"
    /\ IF loaded
       THEN /\ sessions' = sessions \cup {handlers[h].sid}
            /\ UNCHANGED browsers
       ELSE /\ browsers' = browsers \ {handlers[h].sid}
            /\ UNCHANGED sessions
    /\ handlers' = [handlers EXCEPT ![h] = Resting]
    /\ UNCHANGED <<last_accessed, sess_now, created, rejected>>
    /\ SessFrame

\* get_session, lines 469-475, as every route of a session calls it
GetSession(s) ==
    /\ s \in sessions
    /\ last_accessed[s] # sess_now
    /\ last_accessed' = [last_accessed EXCEPT ![s] = sess_now]
    /\ UNCHANGED <<sessions, browsers, handlers, sess_now, created, rejected>>
    /\ SessFrame

\* close_session, lines 477-484
CloseSession(s) ==
    /\ s \in sessions
    /\ sessions' = sessions \ {s}
    /\ browsers' = browsers \ {s}
    /\ UNCHANGED <<last_accessed, handlers, sess_now, created, rejected>>
    /\ SessFrame

\* POST /calibrations/sessions/cleanup (calibrations_api.py line 260)
CleanupSessions ==
    /\ ExpiredSessions # {}
    /\ CleanupExpiredSessions
    /\ UNCHANGED <<last_accessed, handlers, sess_now, created, rejected>>
    /\ SessFrame

\* the clock of the server advances
SessTick ==
    /\ sess_now < MaxSessClock
    /\ sess_now' = sess_now + 1
    /\ UNCHANGED <<sessions, last_accessed, browsers, handlers, created, rejected>>
    /\ SessFrame

\* the steps a handler takes by itself once its request has arrived
HandlerStep(h) ==
    \/ CreateSessionCheck(h)
    \/ \E launched \in BOOLEAN : StartBrowser(h, launched)
    \/ \E loaded \in BOOLEAN : CreateSessionFinish(h, loaded)

SessNext ==
    \/ \E h \in Handlers : CreateSessionRequest(h)
    \/ \E h \in Handlers : HandlerStep(h)
    \/ \E s \in SessionIds : GetSession(s)
    \/ \E s \in SessionIds : CloseSession(s)
    \/ CleanupSessions
    \/ SessTick

\* the calibration service is not running
CalIdle == DomIdle /\ SnapIdle /\ SessIdle

vars == <<execVars, batchVars, compVars, restVars>>

\* Executor.run on one plan
InitExec == ExecInit /\ BatchIdle /\ CompileIdle /\ ExpandIdle /\ MergeIdle /\ CliIdle /\ CalIdle

Spec == InitExec /\ [][ExecNext]_vars

\* BatchExecutor.run_batch on one plan directory
InitBatch == BatchInit /\ CompileIdle /\ ExpandIdle /\ MergeIdle /\ CliIdle /\ CalIdle

SpecBatch == InitBatch /\ [][BatchNext]_vars

\* LLMCompilationPipeline.run on one request and one profile
InitCompile == CompileInit /\ ExecIdle /\ BatchIdle /\ ExpandIdle /\ MergeIdle /\ CliIdle /\ CalIdle

SpecCompile == InitCompile /\ [][CompileNext]_vars

InitExpand == ExpandInit /\ ExecIdle /\ BatchIdle /\ CompileIdle /\ MergeIdle /\ CliIdle /\ CalIdle
SpecExpand == InitExpand /\ [][ExpandNext]_vars

InitMerge == MergeInit /\ ExecIdle /\ BatchIdle /\ CompileIdle /\ ExpandIdle /\ CliIdle /\ CalIdle
SpecMerge == InitMerge /\ [][MergeNext]_vars

InitCli == CliInit /\ CompileIdle /\ ExpandIdle /\ MergeIdle /\ CalIdle
SpecCli == InitCli /\ [][CliNext]_vars

\* the DOM extractions on one loaded page
InitDom ==
    /\ DomInit /\ SnapIdle /\ SessIdle
    /\ ExecIdle /\ BatchIdle /\ CompileIdle /\ ExpandIdle /\ MergeIdle /\ CliIdle
SpecDom == InitDom /\ [][DomNext]_vars

\* the snapshot manager
InitSnap ==
    /\ SnapInit /\ DomIdle /\ SessIdle
    /\ ExecIdle /\ BatchIdle /\ CompileIdle /\ ExpandIdle /\ MergeIdle /\ CliIdle
SpecSnap == InitSnap /\ [][SnapNext]_vars

\* the session manager under concurrent requests
InitSess ==
    /\ SessInit /\ DomIdle /\ SnapIdle
    /\ ExecIdle /\ BatchIdle /\ CompileIdle /\ ExpandIdle /\ MergeIdle /\ CliIdle
SpecSess == InitSess /\ [][SessNext]_vars

\* the same, where time passes and a handler whose request has arrived goes
\* on to its end; nothing makes a client send a request
SpecSessLive ==
    /\ InitSess /\ [][SessNext]_vars
    /\ WF_vars(SessTick)
    /\ \A h \in Handlers : WF_vars(HandlerStep(h))

(***************************************************************************)
(* Properties of Executor.run (checked under Spec).                        *)
(***************************************************************************)
AllStepsPassed(r) == \A i \in 1..Len(r.steps) : r.steps[i].status = "passed"

\* C1 (as stated): every RunResult that run() returns and writes to run.json
\* has status passed if and only if each of its step results is passed,
\* also when the browser context crashes.
C1_ExecutorLaw ==
    epc = "done" =>
        /\ runJson = result
        /\ result.status = "passed" <=> AllStepsPassed(result)

\* C1 (amended): the returned and written RunResult has status passed if and
\* only if each of its step results is passed and the run recorded no crash
\* (run.error is unset).
C1_ExecutorLawAmended ==
    epc = "done" =>
        /\ runJson = result
        /\ result.status = "passed" <=> (AllStepsPassed(result) /\ result.error = NoError)

\* a run whose steps all passed and whose context crashed when it was closed
C1_Witness ==
    /\ epc = "done"
    /\ Len(result.steps) = Len(plan)
    /\ AllStepsPassed(result)
    /\ result.error # NoError
    /\ result.status = "failed"

\* C2: the steps are executed and recorded in plan order, and the first
\* failed step ends the loop: a failed step result is the last one, the run
\* is then failed, and a run that stopped short of the plan without a crash
\* stopped on a failed step.
C2_FirstFailureHalts ==
    /\ Len(runlog) = Len(result.steps)
    /\ Len(result.steps) <= Len(plan)
    /\ \A i \in 1..Len(result.steps) :
          /\ result.steps[i].index = i
          /\ runlog[i].index = i
          /\ result.steps[i].action = plan[i]
          /\ result.steps[i].status = "failed" =>
                i = Len(result.steps) /\ result.status = "failed"
    /\ (epc \in {"exit", "finally", "done"} /\ result.error = NoError
            /\ Len(result.steps) < Len(plan)) =>
          result.steps[Len(result.steps)].status = "failed"

\* a finished run whose first step failed and whose second step never ran
C2_Witness ==
    /\ epc = "done"
    /\ Len(plan) = 2
    /\ Len(result.steps) = 1
    /\ Len(runlog) = 1
    /\ result.steps[1].status = "failed"
    /\ result.status = "failed"

\* the first attempt of click step i failed and its retry succeeded
RetrySucceeded(i) ==
    plan[i].t = "click" /\ runlog[i].first # Ok /\ runlog[i].retry = Ok

\* C3: a click whose first attempt failed and whose retry succeeded is
\* recorded passed with no error, after exactly two attempts (one retry),
\* and the loop goes on to the step after it.
C3_ClickRetrySucceeds ==
    \A i \in 1..Len(runlog) :
        RetrySucceeded(i) =>
            /\ result.steps[i].status = "passed"
            /\ result.steps[i].error = NoError
            /\ runlog[i].attempts = 2
            /\ (i < Len(plan) /\ Len(result.steps) = i) => epc = "loop"

\* a run that passed a click on its retry and then ran the next step
C3_Witness ==
    /\ Len(runlog) = 2
    /\ RetrySucceeded(1)
    /\ runlog[1].first = PlaywrightTimeoutError
    /\ result.steps[1].status = "passed"

\* C4: every step is attempted once or twice; only a click whose first
\* attempt failed is retried, after the 500 ms wait and once; goto, fill and
\* assert steps are attempted exactly once; a click that failed twice is
\* failed and its error is the retry's failure.
C4_RetryBoundedClickOnly ==
    \A i \in 1..Len(runlog) :
        LET l == runlog[i]
            sr == result.steps[i]
        IN /\ l.attempts \in {1, 2}
           /\ plan[i].t # "click" => l.attempts = 1 /\ ~l.retried
           /\ l.retried => plan[i].t = "click" /\ l.first # Ok
           /\ l.attempts = 2 => l.retried /\ l.waited
           /\ l.first = Ok => l.attempts = 1
           /\ (plan[i].t = "click" /\ l.first # Ok /\ l.retry # Ok) =>
                 /\ sr.status = "failed"
                 /\ sr.error = <<RetryPrefix, FormatError(l.retry)>>

\* a click that timed out at first and failed otherwise on the retry
C4_Witness ==
    /\ Len(runlog) >= 1
    /\ plan[1].t = "click"
    /\ runlog[1].first = PlaywrightTimeoutError
    /\ runlog[1].retry = PlaywrightError
    /\ runlog[1].attempts = 2
    /\ result.steps[1].status = "failed"

(***************************************************************************)
(* Properties of BatchExecutor.run_batch (checked under SpecBatch).        *)
(***************************************************************************)
\* the loop over the selected cases has ended
BatchLoopEnded == hasCasesDir /\ bpc \in {"report", "returned", "raised"}

\* run_batch has ended, past the discovery of the cases
BatchEnded == hasCasesDir /\ bpc \in {"returned", "raised"}

\* C5: once the loop over the cases has ended, the three tallies add up to
\* total_cases, the number of selected cases, in the BatchResult and in
\* batch_summary.json.
C5_BatchAccounting ==
    BatchLoopEnded =>
        /\ batch.total_cases = Len(case_items)
        /\ batch.passed_cases + batch.failed_cases + batch.error_cases = batch.total_cases
        /\ summaryJson.written = "complete"
        /\ LET sm == summaryJson.summary
           IN /\ sm.passed_cases + sm.failed_cases + sm.error_cases = sm.total_cases
              /\ sm.total_cases = Len(case_items)

\* a returned batch with a passed, a failed and an error case
C5_Witness ==
    /\ bpc = "returned"
    /\ batch.passed_cases = 1
    /\ batch.failed_cases = 1
    /\ batch.error_cases = 1

\* C6: the loop goes through the selected cases in order, each once, and
\* has gone through all of them when it ends, whatever a case did.
C6_EveryCaseAttemptedOnce ==
    /\ Len(attempted) <= Len(case_items)
    /\ \A i \in 1..Len(attempted) : attempted[i] = case_items[i].itemName
    /\ BatchLoopEnded => Len(attempted) = Len(case_items)

\* a returned batch whose first case raised on loading and whose second case
\* was executed and failed
C6_Witness ==
    /\ bpc = "returned"
    /\ Len(case_items) = 2
    /\ case_items[1].content = Invalid
    /\ batch.error_cases = 1
    /\ batch.failed_cases = 1
    /\ Len(attempted) = 2

\* C7: whenever run_batch ends after discovering the cases, it has written
\* batch_summary.json and a complete test_report.md and returns its result.
C7_AlwaysWritesSummaryAndReport ==
    BatchEnded =>
        /\ summaryJson.written = "complete"
        /\ reportMd.written = "complete"
        /\ bpc = "returned"

(***************************************************************************)
(* Properties of LLMCompilationPipeline.run (checked under SpecCompile).   *)
(***************************************************************************)
CompileEnded == cpc \in {"returned", "raised"}

\* C8: every action_plan.json the pipeline has written validates against
\* the DSL schema, as persisted after enrichment, snapping and threading.
C8_PersistedPlanIsSchemaValid ==
    (CompileEnded /\ planFile # Nothing) => SchemaValid(planFile[1])

\* C9: once the pipeline has returned or raised, no action_plan.json on
\* disk holds a step whose selector uses :contains, ::, contains( or [text().
C9_NoDisallowedSelectorPersisted ==
    (CompileEnded /\ planFile # Nothing) =>
        \A i \in DOMAIN planFile[1].steps :
            ~UsesDisallowedPattern(planFile[1].steps[i].selector)

\* C10: the pipeline makes at most max_attempts attempts and stops at the
\* first valid one; every failed attempt, whatever the failure, appends one
\* user message and is followed by another attempt, and before a plan is
\* accepted the pipeline raises only the exhaustion error, after
\* max_attempts failed attempts.
C10_RepairLoop ==
    LET failed == attempts - (IF accepted THEN 1 ELSE 0)
    IN cpc # "idle" =>
        /\ attempts <= max_attempts
        /\ Len(messages) = Len(InitialMessages) + failed
        /\ (cpc = "raised" /\ ~accepted) =>
              compile_error = AttemptsExhausted /\ failed = max_attempts

\* line 291 ("img" in selector.lower()) and line 309 (":has-text(" in selector)
ImgAnchored(selector) == "img" \in SelectorNeedles(selector)
ContainsHasText(selector) == \E i \in DOMAIN selector.mods : selector.mods[i].m = "has_text"

\* C11: in every plan the pipeline has written, no assert step of kind
\* visible on an img-anchored selector carries a value, and no img-anchored
\* selector contains :has-text, whatever text the earlier steps left behind.
C11_ImageAssertionRule ==
    planFile # Nothing =>
        \A i \in DOMAIN planFile[1].steps :
            LET step == planFile[1].steps[i]
            IN ImgAnchored(step.selector) =>
                  /\ ~ContainsHasText(step.selector)
                  /\ (step.t = "assert" /\ step.kind = "visible") => step.value = None

\* the placeholder resolves by itself on the row: the row holds its field, and
\* the translation or the product of its value exists
Resolves(placeholder, data) ==
    /\ GetReplacementValue(placeholder, data, 0).exception = None
    /\ GetReplacementValue(placeholder, data, 0).value # Absent

\* the row supplies every placeholder of the string, of the template
SuppliesText(text, data) ==
    text # Absent =>
        \A k \in DOMAIN FindAllPlaceholders(text) : Resolves(FindAllPlaceholders(text)[k], data)
SuppliesAll(template, data) ==
    \A j \in DOMAIN Leaves(template) : SuppliesText(Leaves(template)[j], data)

\* the pieces of a string between its placeholders, in order
RECURSIVE LiteralsFrom(_, _, _)
LiteralsFrom(text, i, current) ==
    IF i > Len(text) THEN <<current>>
    ELSE IF MatchAt(text, i).last = 0 THEN LiteralsFrom(text, i + 1, Append(current, text[i]))
    ELSE <<current>> \o LiteralsFrom(text, MatchAt(text, i).last + 1, <<>>)
Literals(text) == LiteralsFrom(text, 1, <<>>)

StartsWith(text, prefix) ==
    Len(text) >= Len(prefix) /\ SubSeq(text, 1, Len(prefix)) = prefix
EndsWith(text, suffix) ==
    Len(text) >= Len(suffix) /\ SubSeq(text, Len(text) - Len(suffix) + 1, Len(text)) = suffix

\* text holds the pieces k.. in order, the last one at its end
RECURSIVE HoldsInOrder(_, _, _)
HoldsInOrder(text, pieces, k) ==
    IF k > Len(pieces) THEN text = <<>>
    ELSE IF k = Len(pieces) THEN EndsWith(text, pieces[k])
    ELSE \E p \in 1..(Len(text) + 1) :
            /\ StartsWith(SubSeq(text, p, Len(text)), pieces[k])
            /\ \A q \in 1..(p - 1) : ~StartsWith(SubSeq(text, q, Len(text)), pieces[k])
            /\ HoldsInOrder(SubSeq(text, p + Len(pieces[k]), Len(text)), pieces, k + 1)

\* text is the template string but for what stands at its placeholders
DiffersOnlyAtSites(text, template_text) ==
    IF template_text = Absent THEN text = Absent
    ELSE /\ StartsWith(text, Literals(template_text)[1])
         /\ IF Len(Literals(template_text)) = 1 THEN text = template_text
            ELSE HoldsInOrder(SubSeq(text, Len(Literals(template_text)[1]) + 1, Len(text)),
                              Literals(template_text), 2)

HasToken(text) == text # Absent /\ FindAllPlaceholders(text) # <<>>

\* the identification that Expand itself gives its first case (meta.testId,
\* meta.dataSource) taken back, so that the case compares with the template
WithoutIdentification(case, template) ==
    ActionPlan(IF template.meta.testId = Absent THEN Absent
               ELSE IF EndsWith(case.meta.testId, <<"_", "0", "0", "1">>)
               THEN SubSeq(case.meta.testId, 1, Len(case.meta.testId) - 4)
               ELSE case.meta.testId,
               case.meta.baseUrl, Absent, case.steps)

\* C12: when Expand has run a template on a dataset of one row that supplies
\* every placeholder of the template, it has returned exactly one case, no
\* string of the case holds a placeholder token, and the case is the template
\* but for what stands where a placeholder stood (the identification that
\* Expand adds to meta aside).
C12_PlaceholderRoundTrip ==
    (/\ xpc \in {"returned", "raised"}
     /\ Len(dataset) = 1
     /\ SuppliesAll(template_plan, dataset[1]))
        => /\ xpc = "returned"
           /\ Len(cases) = 1
           /\ \A j \in DOMAIN Leaves(cases[1]) :
                 /\ ~HasToken(Leaves(cases[1])[j])
                 /\ DiffersOnlyAtSites(Leaves(WithoutIdentification(cases[1], template_plan))[j],
                                       Leaves(template_plan)[j])

\* the string with each placeholder occurrence replaced by the resolved value
\* of that very placeholder
RECURSIVE ResolvedFrom(_, _, _)
ResolvedFrom(text, i, data) ==
    IF i > Len(text) THEN <<>>
    ELSE IF MatchAt(text, i).last = 0 THEN <<text[i]>> \o ResolvedFrom(text, i + 1, data)
    ELSE GetReplacementValue(MatchAt(text, i).match, data, 0).value
            \o ResolvedFrom(text, MatchAt(text, i).last + 1, data)

\* the row gives a placeholder with a multiplier a value that is no number
NonNumericUnderMultiplier(placeholder, data) ==
    /\ placeholder.multiplier # NoMultiplier
    /\ LookupField(placeholder.field_name, data) # JsonNull
    /\ ParseFloat(LookupField(placeholder.field_name, data)).kind = "ValueError"

\* C13: for every row that Expand has processed and every string of the
\* template: if the row resolves all placeholders of the string, the resolved
\* string is the template string with each occurrence replaced by the value of
\* its own placeholder (the row's value, or value times N rendered as an
\* integer when integral); and a placeholder with a multiplier on a
\* non-numeric value has an expression_error recorded for that row.
C13_EachOccurrenceItsOwnValue ==
    \A i \in DOMAIN resolved :
        \A j \in DOMAIN Leaves(template_plan) :
            LET text == Leaves(template_plan)[j]
            IN text # Absent =>
                  /\ SuppliesText(text, dataset[i]) =>
                        Leaves(resolved[i].plan)[j] = ResolvedFrom(text, 1, dataset[i])
                  /\ \A k \in DOMAIN FindAllPlaceholders(text) :
                        NonNumericUnderMultiplier(FindAllPlaceholders(text)[k], dataset[i]) =>
                            \E e \in DOMAIN stats.errors :
                                stats.errors[e] = ReplacementError(
                                    "expression_error", FindAllPlaceholders(text)[k].placeholder,
                                    FindAllPlaceholders(text)[k].field_name, i - 1)

HasError(error_type, placeholder, data_index) ==
    \E e \in DOMAIN stats.errors :
        stats.errors[e] = ReplacementError(error_type, placeholder.placeholder,
                                           placeholder.field_name, data_index)

HoldsKey(data, key) == key \in DOMAIN data /\ data[key] # JsonNull

\* the string is one plain placeholder and nothing else
IsPlainPlaceholder(text) ==
    /\ Len(FindAllPlaceholders(text)) = 1
    /\ FindAllPlaceholders(text)[1].placeholder = text
    /\ FindAllPlaceholders(text)[1].multiplier = NoMultiplier
    /\ ~FindAllPlaceholders(text)[1].is_gender_translation

\* some placeholder of the template overflows on the row
Overflows(template, data) ==
    \E j \in DOMAIN Leaves(template) :
        /\ Leaves(template)[j] # Absent
        /\ \E k \in DOMAIN FindAllPlaceholders(Leaves(template)[j]) :
              GetReplacementValue(FindAllPlaceholders(Leaves(template)[j])[k], data, 0).exception
                  # None

\* C14: for every row i that Expand has processed and every string of the
\* template: a plain placeholder s_<f> takes the row's value under the key f
\* when the row holds f, else the value under s_<f>; a placeholder whose field
\* the row holds under neither key has a missing_field error recorded with
\* the row's index and the row has failed; every placeholder token left in
\* the resolved string has an unreplaced_placeholder error recorded and the
\* row has failed; and the call has raised only on a row on which a
\* multiplication overflows, never on a missing field or a token left over.
C14_LookupAndErrors ==
    /\ \A i \in DOMAIN resolved :
          \A j \in DOMAIN Leaves(template_plan) :
              LET text == Leaves(template_plan)[j]
                  after == Leaves(resolved[i].plan)[j]
                  data == dataset[i]
              IN text # Absent =>
                    /\ IsPlainPlaceholder(text) =>
                          LET f == FindAllPlaceholders(text)[1].field_name
                          IN /\ HoldsKey(data, f) => after = data[f]
                             /\ (f \notin DOMAIN data /\ HoldsKey(data, <<"s", "_">> \o f)) =>
                                   after = data[<<"s", "_">> \o f]
                    /\ \A k \in DOMAIN FindAllPlaceholders(text) :
                          LET f == FindAllPlaceholders(text)[k].field_name
                          IN (f \notin DOMAIN data /\ (<<"s", "_">> \o f) \notin DOMAIN data) =>
                                /\ HasError("missing_field", FindAllPlaceholders(text)[k], i - 1)
                                /\ ~resolved[i].ok
                    /\ \A k \in DOMAIN FindAllPlaceholders(after) :
                          /\ HasError("unreplaced_placeholder", FindAllPlaceholders(after)[k], i - 1)
                          /\ ~resolved[i].ok
    /\ xpc = "raised" => Overflows(template_plan, dataset[Len(resolved) + 1])

\* C14's case: the second row of a dataset holds the field of the template's
\* placeholder under neither key, and Expand has processed it
C14_Witness ==
    /\ Len(resolved) = 2
    /\ template_plan.steps[1].value = TxtName
    /\ dataset[2] = RowEmpty
    /\ ~resolved[2].ok
    /\ HasError("missing_field", FindAllPlaceholders(TxtName)[1], 1)
    /\ HasError("unreplaced_placeholder", FindAllPlaceholders(TxtName)[1], 1)

\* the positions of the rows that Expand accepted, in row order
RECURSIVE AcceptedRows(_)
AcceptedRows(log) ==
    IF log = <<>> THEN <<>>
    ELSE AcceptedRows(SubSeq(log, 1, Len(log) - 1))
            \o (IF log[Len(log)].ok THEN <<Len(log)>> ELSE <<>>)

\* n < 1000 written with three digits
ThreeDigits(n) ==
    <<DigitChars[((n \div 100) % 10) + 1], DigitChars[((n \div 10) % 10) + 1],
      DigitChars[(n % 10) + 1]>>

\* the cases are those of the accepted rows, in row order, each with
\* meta.dataSource dataset#<i> and meta.testId <base>_<i+1 on three digits>,
\* where base(r) is the base that the row at position r has
CasesIdentified(base(_)) ==
    /\ Len(cases) = Len(AcceptedRows(resolved))
    /\ \A k \in DOMAIN cases :
          LET r == AcceptedRows(resolved)[k]
          IN /\ cases[k].meta.testId = base(r) \o <<"_">> \o ThreeDigits(r)
             /\ cases[k].meta.dataSource = DatasetPrefix \o IntToStr(r - 1)

\* C15 as stated: each accepted row i (0-based) has given one case, in row
\* order, with meta.testId == <test_id_base>_<i+1 on three digits> and
\* meta.dataSource == dataset#<i>.
C15_CaseIdentification ==
    LET base(r) == TestIdBase(template_plan)
    IN CasesIdentified(base)

\* C15 amended: the same, where the base of the testId is the template's own
\* meta.testId with the row's values in place of its placeholders when the
\* template has a meta.testId, and test_id_base only when it has none.
C15_CaseIdentificationAmended ==
    LET base(r) == IF template_plan.meta.testId = Absent THEN TestIdBase(template_plan)
                   ELSE resolved[r].plan.meta.testId
    IN CasesIdentified(base)

\* C15's case: the template's testId holds a placeholder, the first row
\* failed and the second row was accepted
C15_Witness ==
    /\ xpc = "returned"
    /\ template_plan.meta.testId = <<"T", "-", "s", "_", "n">>
    /\ Len(resolved) = 2
    /\ ~resolved[1].ok
    /\ Len(cases) = 1
    /\ cases[1].meta.testId = <<"T", "-", "A", "l", "_", "0", "0", "2">>
    /\ cases[1].meta.dataSource = DatasetPrefix \o <<"1">>

\* how many rows of the log were accepted (TRUE) or failed (FALSE)
Count(log, ok) == Cardinality({i \in DOMAIN log : log[i].ok = ok})

\* C16: Expand never stops before the last row (the call does not raise);
\* at every moment the failed rows have given no case and count one failure
\* each; and when it has returned, every row was processed,
\* successful_items + failed_items == total_items, the number of cases is
\* successful_items, and failed_items > 0 exactly when an error was recorded.
C16_EveryRowAccounted ==
    /\ xpc # "raised"
    /\ stats.failed_items = Count(resolved, FALSE)
    /\ stats.successful_items = Count(resolved, TRUE)
    /\ Len(cases) = Count(resolved, TRUE)
    /\ xpc = "returned" =>
          /\ Len(resolved) = Len(dataset)
          /\ stats.total_items = Len(dataset)
          /\ stats.successful_items + stats.failed_items = stats.total_items
          /\ Len(cases) = stats.successful_items
          /\ (stats.failed_items > 0) <=> (stats.errors # <<>>)

\* C17: whenever MergePage has merged a page that the profile file already
\* held, the history of the page is not shorter than it was before the call
\* and the version of the page is later than it was before the call.
C17_MergeMonotone ==
    (merge_call.error = None /\ merge_call.before # <<>>) =>
        /\ Len(merge_call.after[1].history) >= Len(merge_call.before[1].history)
        /\ merge_call.after[1].version > merge_call.before[1].version

\* C18: whenever MergePage was called on an existing profile file whose
\* top-level pages is missing or is not a list, the call has failed with
\* INVALID_PROFILE, it is not writing, and the file is as the call found it.
C18_InvalidProfileRejected ==
    (merge_call.found.state = "full" /\ merge_call.found.doc.pages_kind # "list") =>
        /\ merge_call.error = "INVALID_PROFILE"
        /\ mpc # "writing"
        /\ profile_file = merge_call.found

\* C19: what a reader has loaded from the profile file is never an empty
\* file nor the head of a document: whether MergePage is writing or has
\* crashed while writing, the reader gets a whole profile (or no file, before
\* the first one is written).
C19_ReaderSeesWholeFile ==
    observed.state \notin {"empty", "partial"}

\* C20: for every executed step whose capture did not itself fail, the step
\* has the screenshot steps/<NN>.png exactly as the policy says: none under
\* the policy none; under on-failure if and only if the step ended failed;
\* under all whatever the path of the step to its final status.
C20_ScreenshotPolicy ==
    \A i \in DOMAIN result.steps :
        ~runlog[i].shot_failed =>
            /\ result.steps[i].screenshot_path \in {<<>>, <<"steps", i>>}
            /\ screenshots = "none" => result.steps[i].screenshot_path = <<>>
            /\ screenshots = "on-failure" =>
                  (result.steps[i].screenshot_path # <<>> <=> result.steps[i].status = "failed")
            /\ screenshots = "all" => result.steps[i].screenshot_path # <<>>

\* the run has recorded a crash of the browser context
Crashed(run) == run.error # NoError

\* C21: in every step of Executor.run after which a crash of the browser
\* context is recorded, the RunResult has status failed and the message of
\* the exception as its error, the step results are those recorded before,
\* the run is on its way to run.json or past it, and once run() has returned
\* run.json holds that RunResult and was written exactly once.
C21_CrashStillRecorded ==
    [][Crashed(result') =>
          /\ result'.status = "failed"
          /\ result'.error = <<PlaywrightError>>
          /\ result'.steps = result.steps
          /\ epc' \in {"finally", "done", "raised"}
          /\ epc' = "done" => (runJson' = result' /\ writes' = 1)]_vars

\* C21's case: the context crashed after a step had been recorded, and run()
\* has returned
C21_Witness ==
    /\ epc = "done"
    /\ Crashed(result)
    /\ Len(result.steps) >= 1
    /\ result.steps[1].status = "passed"
    /\ runJson = result
    /\ writes = 1

\* the action of the run CLI fully succeeded: the single run returned passed
\* and its report was written, or the batch returned without a failed and
\* without an error case
FullySucceeded ==
    IF cli_mode = "single"
    THEN epc = "done" /\ result.status = "passed" /\ reportMd.written = "complete"
    ELSE bpc = "returned" /\ batch.failed_cases = 0 /\ batch.error_cases = 0

\* C22: when the run CLI has exited, its exit code is 0 if and only if the
\* action fully succeeded (single mode: the run passed; batch mode: every
\* selected case passed), and it is 1 after any case failure, any exception
\* of the run or the batch and any I/O error.
C22_ExitCode ==
    exit_code # <<>> =>
        /\ exit_code \in {<<0>>, <<1>>}
        /\ exit_code = <<0>> <=> FullySucceeded

\* C22's case: a batch returned with a passed case and an error case, no
\* failed one, and the CLI has exited with 1
C22_Witness ==
    /\ cli_mode = "batch"
    /\ bpc = "returned"
    /\ batch.passed_cases = 1
    /\ batch.failed_cases = 0
    /\ batch.error_cases = 1
    /\ exit_code = <<1>>

\* the entries of an emitted tree carry pairwise different ids
IdsDistinct(entries) ==
    \A i, j \in 1..Len(entries) : i # j => entries[i].dom_id # entries[j].dom_id

\* the live element of every entry carries the entry's id
IdsLive(entries, page) ==
    \A i \in 1..Len(entries) : page[entries[i].el].dom_id = entries[i].dom_id

\* C23: in the tree that a snapshot or a SyncDOM call has just emitted no two
\* nodes carry the same dom_id, and the live element of each node carries that
\* value in data-dom-id, after any sequence of SyncDOM calls, also when an
\* element was added in between or the limits grew.
C23_DomIdsUnique ==
    dom_op \in {"snapshot", "sync"} =>
        /\ IdsDistinct(dom_tree)
        /\ IdsLive(dom_tree, page_dom)

\* C24: when create_snapshot has failed, by a timeout of the navigation or of
\* wait_for as by any other error, no directory of that snapshot_id is left
\* under the snapshots root.
C24_FailedSnapshotRemoved ==
    (snap_pc = "idle" /\ snap_result \in {"timeout_error", "error"}) =>
        ~snapshots_dir[snapshot_id].exists

\* C25: at every moment, whatever the interleaving of the create, close and
\* cleanup requests, the pool holds at most max_sessions sessions and at most
\* max_sessions headed browsers run.
C25_AtMostMaxSessions ==
    /\ Cardinality(sessions) <= max_sessions
    /\ Cardinality(browsers) <= max_sessions

\* a pooled session whose last access lies more than the timeout back
IdleTooLong(s) ==
    /\ s \in sessions
    /\ sess_now - last_accessed[s] > session_timeout

\* C26: a session that has not been accessed for longer than session_timeout
\* is eventually closed and removed from the pool (unless it is accessed
\* again first).
C26_IdleSessionClosed ==
    \A s \in SessionIds : IdleTooLong(s) ~> ~IdleTooLong(s)

\* C27: within one batch no two discovered cases write their run.json to
\* the same directory <batch_dir>/<case_name>/, so no case overwrites the
\* run.json of another.
C27_OwnArtifactsDir ==
    \A i, j \in 1..Len(run_files) :
        run_files[i].dir = run_files[j].dir => run_files[i].item = run_files[j].item

\* C30: when run_batch has returned, test_report.md shows as total the
\* total_cases of batch_summary.json, as passed its passed_cases and as
\* failed its failed_cases + error_cases: no selected case is missing.
C30_ReportAccountsForAll ==
    bpc = "returned" =>
        /\ reportMd.total_cases = summaryJson.summary.total_cases
        /\ reportMd.passed_cases = summaryJson.summary.passed_cases
        /\ reportMd.failed_cases =
              summaryJson.summary.failed_cases + summaryJson.summary.error_cases

\* the steps the LLM answered with and the steps written to action_plan.json
SentSteps == response_payload[1].steps
WrittenSteps == planFile[1].steps

IsCountAssert(step) == step.t = "assert" /\ step.kind \in COUNT_ASSERT_KINDS

\* C29: a count assertion (count_equals, count_at_least) comes out of context
\* threading with its kind, without a :has-text it did not have, and with the
\* value it had: the remembered text is not given to it, whatever steps
\* precede it.
C29_CountAssertsUntouched ==
    planFile # Nothing =>
        \A i \in DOMAIN WrittenSteps :
            IsCountAssert(SentSteps[i]) =>
                /\ WrittenSteps[i].kind = SentSteps[i].kind
                /\ ~ContainsHasText(SanitizeSelector(SentSteps[i].selector)) =>
                       ~ContainsHasText(WrittenSteps[i].selector)
                /\ WrittenSteps[i].value = SentSteps[i].value

\* the selector ends with :has-text("v")
EndsWithHasText(selector, v) ==
    /\ Len(selector.mods) > 0
    /\ selector.mods[Len(selector.mods)] = Mod("has_text", v)

\* an assertion of kind text_contains with a string value and a selector
IsTextAssert(step) ==
    /\ step.t = "assert"
    /\ step.kind = "text_contains"
    /\ step.value # None
    /\ step.selector # NoSelector

\* the selector of step i as context threading receives it
Received(i) == SnapStep(SentSteps[i], profile).selector

\* the text assertions before step j, and the value the last of them left
\* (the answers of the model hold one text, so the value remembered for an
\* alias and last_value are the same)
TextAssertsBefore(j) == { i \in 1..(j - 1) : IsTextAssert(SentSteps[i]) }
RememberedAt(j) == SentSteps[Max(TextAssertsBefore(j))].value

\* a click without a value of its own that comes after a text assertion
InheritingClick(j) ==
    /\ SentSteps[j].t = "click"
    /\ SentSteps[j].value = None
    /\ SentSteps[j].selector # NoSelector
    /\ TextAssertsBefore(j) # {}

\* the click goes to a buy-button alias of the profile
TargetsBuyButton(j) ==
    \E a \in DOMAIN profile :
        /\ WrittenSteps[j].selector.parts = profile[a].selector.parts
        /\ (BuyKeywords \cap AliasNeedles(profile[a])) # {}

\* the text assertion of step i got :has-text("V") unless it had a :has-text
TextAssertThreaded(i) ==
    /\ WrittenSteps[i].value = SentSteps[i].value
    /\ IF ContainsHasText(Received(i))
       THEN WrittenSteps[i].selector = Received(i)
       ELSE EndsWithHasText(WrittenSteps[i].selector, SentSteps[i].value)

====
